---------------------------- MODULE Spec2Model ----------------------------
(***************************************************************************)
(* Model of the command execution layer of salesforce-cli-mcp-server       *)
(* (utils/sfCommand.ts): executable discovery, project-path validation,    *)
(* the four invokers and the classification of a child process result.     *)
(*                                                                         *)
(* Text is modelled as a sequence of lexemes whose concatenation is the    *)
(* string: "sf org list" is <<"sf", " ", "org", " ", "list">>.  Substring  *)
(* search, trimming, the /^sf\s+/ replacement and JSON.parse are computed  *)
(* on these sequences.                                                     *)
(***************************************************************************)
EXTENDS Integers, Sequences, FiniteSets, TLC

VARIABLES
    cachedSfPath,   \* sfCommand.ts: let cachedSfPath (<<>> models null)
    platform,       \* what os.platform() returns in this process
    present,        \* the candidate executable paths that exist on disk
    calls,          \* the invocations in flight, one record per call slot
    running,        \* the call whose synchronous section holds the JS thread (0: none)
    cb,             \* the last exec callback run on its own, with the outcome it settled
    sfPaths,        \* what the calls of findSfPath returned, in call order
    built,          \* the last buildSfCommand call, and the run of the command it built
    logout,         \* the last call of the logout tool: its input, its child, its answer
    apex,           \* the executeAnonymousApex calls, one record per call slot
    clock,          \* what Date.now() returns at this moment
    tempFiles       \* the temporary Apex files on disk: path and content

lifeVars == <<cachedSfPath, calls, running>>
envVars == <<platform, present>>
fnVars == <<sfPaths, built>>
apexVars == <<apex, clock, tempFiles>>
toolVars == <<logout, apex, clock, tempFiles>>
vars == <<cachedSfPath, platform, present, calls, running, cb, sfPaths, built,
          logout, apex, clock, tempFiles>>

-----------------------------------------------------------------------------
(* Text helpers: String.prototype.includes, trim                           *)

Q == "\""
NL == "\n"
SP == " "

IsWs(x) == x \in {SP, NL}

\* s.includes(needle): needle occurs as a contiguous run of s
Includes(s, needle) ==
    \E i \in 0..(Len(s) - Len(needle)) :
        \A j \in 1..Len(needle) : s[i + j] = needle[j]

\* s.trim() === ""
IsBlank(s) == \A i \in 1..Len(s) : IsWs(s[i])

RECURSIVE Join(_, _)
\* Array.prototype.join on an array of texts
Join(texts, sep) ==
    IF Len(texts) = 0 THEN <<>>
    ELSE IF Len(texts) = 1 THEN texts[1]
    ELSE texts[1] \o sep \o Join(Tail(texts), sep)

-----------------------------------------------------------------------------
(* JSON values and JSON.parse                                              *)

JUndef == [t |-> "undefined", v |-> <<>>]
JNull == [t |-> "null", v |-> <<>>]
JBool(lex) == [t |-> "bool", v |-> <<lex>>]
JNum(lex) == [t |-> "num", v |-> <<lex>>]
JStr(text) == [t |-> "str", v |-> text]
JArr(elems) == [t |-> "arr", v |-> elems]
JObj(members) == [t |-> "obj", v |-> members]

NumLexemes == {"0", "1", "2", "127"}

ParseFail == [ok |-> FALSE, val |-> JUndef, next |-> 0]
ParseOk(val, next) == [ok |-> TRUE, val |-> val, next |-> next]

RECURSIVE SkipWs(_, _)
SkipWs(s, i) == IF i <= Len(s) /\ IsWs(s[i]) THEN SkipWs(s, i + 1) ELSE i

\* a string literal opening at s[i] = Q; a raw newline inside it is invalid
ParseString(s, i) ==
    LET closes == {j \in (i + 1)..Len(s) : s[j] = Q}
        literal(j) == IF \E k \in (i + 1)..(j - 1) : s[k] = NL THEN ParseFail
                      ELSE ParseOk(JStr(SubSeq(s, i + 1, j - 1)), j + 1)
    IN  IF closes = {} THEN ParseFail
        ELSE literal(CHOOSE c \in closes : \A d \in closes : c <= d)

RECURSIVE ParseValue(_, _)
RECURSIVE ParseElements(_, _, _)
RECURSIVE ParseMembers(_, _, _)

\* the value that starts at position i0, after any whitespace
ParseValue(s, i0) ==
    LET emptyOr(close, empty, rest, j) ==
            IF j <= Len(s) /\ s[j] = close THEN ParseOk(empty, j + 1) ELSE rest
        at(i) ==
            IF i > Len(s) THEN ParseFail
            ELSE IF s[i] = Q THEN ParseString(s, i)
            ELSE IF s[i] \in NumLexemes THEN ParseOk(JNum(s[i]), i + 1)
            ELSE IF s[i] = "null" THEN ParseOk(JNull, i + 1)
            ELSE IF s[i] \in {"true", "false"} THEN ParseOk(JBool(s[i]), i + 1)
            ELSE IF s[i] = "["
                THEN emptyOr("]", JArr(<<>>), ParseElements(s, i + 1, <<>>), SkipWs(s, i + 1))
            ELSE IF s[i] = "{"
                THEN emptyOr("}", JObj(<<>>), ParseMembers(s, i + 1, <<>>), SkipWs(s, i + 1))
            ELSE ParseFail
    IN  at(SkipWs(s, i0))

\* the elements of an array from position i on, up to its "]"
ParseElements(s, i, acc) ==
    LET after(elems, j) ==
            IF j > Len(s) THEN ParseFail
            ELSE IF s[j] = "," THEN ParseElements(s, j + 1, elems)
            ELSE IF s[j] = "]" THEN ParseOk(JArr(elems), j + 1)
            ELSE ParseFail
        element(r) ==
            IF ~r.ok THEN ParseFail ELSE after(Append(acc, r.val), SkipWs(s, r.next))
    IN  element(ParseValue(s, i))

\* the members of an object from position i0 on, up to its "}"; they are kept
\* as a function key -> value, and a repeated key keeps the last value
ParseMembers(s, i0, acc) ==
    LET after(members, j) ==
            IF j > Len(s) THEN ParseFail
            ELSE IF s[j] = "," THEN ParseMembers(s, j + 1, members)
            ELSE IF s[j] = "}" THEN ParseOk(JObj(members), j + 1)
            ELSE ParseFail
        value(key, r) ==
            IF ~r.ok THEN ParseFail
            ELSE after((key :> r.val) @@ acc, SkipWs(s, r.next))
        colon(k, c) ==
            IF c > Len(s) \/ s[c] # ":" THEN ParseFail
            ELSE value(k.val.v, ParseValue(s, c + 1))
        key(k) == IF ~k.ok THEN ParseFail ELSE colon(k, SkipWs(s, k.next))
        at(i) == IF i > Len(s) \/ s[i] # Q THEN ParseFail ELSE key(ParseString(s, i))
    IN  at(SkipWs(s, i0))

\* JSON.parse(text): [ok |-> FALSE] models the SyntaxError it throws
JSONParse(s) ==
    LET whole(r) == IF r.ok /\ SkipWs(s, r.next) > Len(s)
                    THEN [ok |-> TRUE, val |-> r.val]
                    ELSE [ok |-> FALSE, val |-> JUndef]
    IN  whole(ParseValue(s, 1))

-----------------------------------------------------------------------------
(* JavaScript semantics used by the callbacks                              *)

\* value.key: a TypeError on null/undefined, undefined when the key is absent
CanRead(val) == val.t \notin {"null", "undefined"}
Get(val, key) ==
    IF val.t = "obj" /\ key \in DOMAIN val.v THEN val.v[key] ELSE JUndef

\* ToBoolean
Truthy(val) ==
    CASE val.t \in {"undefined", "null"} -> FALSE
      [] val.t = "bool" -> val.v = <<"true">>
      [] val.t = "num" -> val.v # <<"0">>
      [] val.t = "str" -> val.v # <<>>
      [] OTHER -> TRUE

RECURSIVE ToStr(_)
RECURSIVE ElemTexts(_)
\* the texts Array.prototype.join concatenates: null and undefined give ""
ElemTexts(elems) ==
    IF Len(elems) = 0 THEN <<>>
    ELSE <<IF CanRead(elems[1]) THEN ToStr(elems[1]) ELSE <<>>>>
         \o ElemTexts(Tail(elems))

\* ToString, as a template literal `${val}` applies it
ToStr(val) ==
    CASE val.t = "undefined" -> <<"undefined">>
      [] val.t = "null" -> <<"null">>
      [] val.t = "arr" -> Join(ElemTexts(val.v), <<",">>)
      [] val.t = "obj" -> <<"[object Object]">>
      [] OTHER -> val.v

\* val.join(sep): only an array has it
ArrayJoin(val, sep) == Join(ElemTexts(val.v), sep)

Threw == [threw |-> TRUE, text |-> <<>>]
Text(t) == [threw |-> FALSE, text |-> t]

\* sfCommand.ts 92-97 / 110-115: threw models the TypeError the catch absorbs
DetailedMessage(errorDetails) ==
    LET build(message, actions, stack) ==
            IF Truthy(actions) /\ actions.t # "arr" THEN Threw
            ELSE Text(<<"Error: ">> \o ToStr(message) \o <<NL>>
                      \o (IF Truthy(actions)
                          THEN <<"Actions: ">> \o ArrayJoin(actions, <<NL>>) \o <<NL>>
                          ELSE <<>>)
                      \o (IF Truthy(stack) THEN <<"Stack: ">> \o ToStr(stack) ELSE <<>>))
    IN  IF ~CanRead(errorDetails) THEN Threw
        ELSE build(Get(errorDetails, <<"message">>), Get(errorDetails, <<"actions">>),
                   Get(errorDetails, <<"stack">>))

\* try { JSON.parse(stderr); build detailedMessage } : threw when either throws
StderrDetails(stderr) ==
    LET details(p) == IF p.ok THEN DetailedMessage(p.val) ELSE Threw
    IN  details(JSONParse(stderr))

\* sfCommand.ts 358-372: the message built from a stdout JSON error document;
\* threw models falling through (a throw, or status/exitCode not 1)
StdoutJsonError(stdout) ==
    LET isOne(x) == x.t = "num" /\ x.v = <<"1">>
        first(message, name) ==
            IF Truthy(message) THEN message
            ELSE IF Truthy(name) THEN name ELSE JStr(<<"Command failed">>)
        build(errorMessage, actions, stack) ==
            IF Truthy(actions) /\ actions.t # "arr" THEN Threw
            ELSE Text(ToStr(errorMessage)
                      \o (IF Truthy(actions)
                          THEN <<NL, "Suggested actions:", NL>> \o ArrayJoin(actions, <<NL>>)
                          ELSE <<>>)
                      \o (IF Truthy(stack)
                          THEN <<NL, "Stack trace:", NL>> \o ToStr(stack) ELSE <<>>))
        result(jsonResult) ==
            IF ~CanRead(jsonResult) THEN Threw
            ELSE IF ~(isOne(Get(jsonResult, <<"status">>))
                      \/ isOne(Get(jsonResult, <<"exitCode">>))) THEN Threw
            ELSE build(first(Get(jsonResult, <<"message">>), Get(jsonResult, <<"name">>)),
                       Get(jsonResult, <<"actions">>), Get(jsonResult, <<"stack">>))
        parsed(p) == IF p.ok THEN result(p.val) ELSE Threw
    IN  parsed(JSONParse(stdout))

-----------------------------------------------------------------------------
(* Outcomes: how the promise of an invocation settles.  The code rejects   *)
(* with Error objects; kind names the reject site in the error taxonomy.   *)

Resolved(kind, value) == [ok |-> TRUE, kind |-> kind, value |-> value, message |-> <<>>]
Rejected(kind, message) == [ok |-> FALSE, kind |-> kind, value |-> JUndef, message |-> message]

NotFoundMessage ==
    <<"Salesforce CLI (sf) not found. Please ensure it is installed and accessible. ",
      "Visit https://developer.salesforce.com/tools/salesforcecli for installation instructions.">>
NoOutputMessage == <<"No output received from command">>

NoError == [raised |-> FALSE, message |-> <<>>]

\* error.message.includes("command not found") || error.message.includes("is not recognized")
IsNotFound(error) ==
    \/ Includes(error.message, <<"command", SP, "not", SP, "found">>)
    \/ Includes(error.message, <<"is", SP, "not", SP, "recognized">>)

\* command.includes("scanner") || command.includes("code-analyzer")
IsAnalysis(command) ==
    Includes(command, <<"scanner">>) \/ Includes(command, <<"code-analyzer">>)

\* stderr && !stderr.includes("Warning")
StderrIsError(stderr) == stderr # <<>> /\ ~Includes(stderr, <<"Warning">>)

-----------------------------------------------------------------------------
(* The exec callbacks of the four invokers: (error, stdout, stderr) and    *)
(* the command captured by the closure, to the way the promise settles.    *)

\* mutant: the execution failure is classified before stdout is parsed
ExecuteSfCommandCb_ErrorFirst(command, error, stdout, stderr) ==
    LET settle(out, details) ==
            IF error.raised THEN
                IF IsNotFound(error) THEN Rejected("ExecutableNotFound", NotFoundMessage)
                ELSE IF details.threw THEN Rejected("RawFailure", error.message)
                ELSE Rejected("CommandFailed", details.text)
            ELSE IF stdout # <<>> /\ out.ok THEN Resolved("Structured", out.val)
            ELSE IF StderrIsError(stderr) THEN
                IF details.threw THEN Rejected("CommandFailed", stderr)
                ELSE Rejected("CommandFailed", details.text)
            ELSE Rejected("NoOutput", NoOutputMessage)
    IN  settle(JSONParse(stdout), StderrDetails(stderr))

\* mutant: stderr is parsed for details before the "not found" test
ExecuteSfCommandCb_StderrFirst(command, error, stdout, stderr) ==
    LET settle(out, details) ==
            IF stdout # <<>> /\ out.ok THEN Resolved("Structured", out.val)
            ELSE IF error.raised THEN
                IF ~details.threw THEN Rejected("CommandFailed", details.text)
                ELSE IF IsNotFound(error)
                    THEN Rejected("ExecutableNotFound", NotFoundMessage)
                ELSE Rejected("RawFailure", error.message)
            ELSE IF StderrIsError(stderr) THEN
                IF details.threw THEN Rejected("CommandFailed", stderr)
                ELSE Rejected("CommandFailed", details.text)
            ELSE Rejected("NoOutput", NoOutputMessage)
    IN  settle(JSONParse(stdout), StderrDetails(stderr))

\* executeSfCommand, sfCommand.ts 60-125
ExecuteSfCommandCb(command, error, stdout, stderr) ==
    LET settle(out, details) ==
            IF stdout # <<>> /\ out.ok THEN Resolved("Structured", out.val)
            ELSE IF error.raised THEN
                IF IsNotFound(error) THEN Rejected("ExecutableNotFound", NotFoundMessage)
                ELSE IF details.threw THEN Rejected("RawFailure", error.message)
                ELSE Rejected("CommandFailed", details.text)
            ELSE IF StderrIsError(stderr) THEN
                IF details.threw THEN Rejected("CommandFailed", stderr)
                ELSE Rejected("CommandFailed", details.text)
            ELSE Rejected("NoOutput", NoOutputMessage)
    IN  settle(JSONParse(stdout), StderrDetails(stderr))

\* mutant: the raw invoker takes over the stderr and no-output steps of the parsing one
ExecuteSfCommandRawCb_StderrFails(command, error, stdout, stderr) ==
    IF error.raised THEN
        IF IsNotFound(error) THEN Rejected("ExecutableNotFound", NotFoundMessage)
        ELSE IF stdout # <<>> /\ IsAnalysis(command) THEN Resolved("Raw", stdout)
        ELSE Rejected("RawFailure", error.message)
    ELSE IF StderrIsError(stderr) THEN Rejected("CommandFailed", stderr)
    ELSE Resolved("Raw", stdout)

\* executeSfCommandRaw, sfCommand.ts 138-166
ExecuteSfCommandRawCb(command, error, stdout, stderr) ==
    IF error.raised THEN
        IF IsNotFound(error) THEN Rejected("ExecutableNotFound", NotFoundMessage)
        ELSE IF stdout # <<>> /\ IsAnalysis(command) THEN Resolved("Raw", stdout)
        ELSE Rejected("RawFailure", error.message)
    ELSE Resolved("Raw", stdout)

\* mutant: the project-scoped parsing invoker hands stdout on as it came
ExecuteSfCommandInProjectCb_Unparsed(command, error, stdout, stderr) ==
    IF stdout # <<>> THEN Resolved("Raw", stdout)
    ELSE Rejected("NoOutput", NoOutputMessage)

\* executeSfCommandInProject, sfCommand.ts 262-299
ExecuteSfCommandInProjectCb(command, error, stdout, stderr) ==
    LET settle(out) ==
            IF stdout # <<>> /\ out.ok THEN Resolved("Structured", out.val)
            ELSE IF error.raised THEN
                IF IsNotFound(error) THEN Rejected("ExecutableNotFound", NotFoundMessage)
                ELSE Rejected("RawFailure", error.message)
            ELSE IF StderrIsError(stderr) THEN Rejected("CommandFailed", stderr)
            ELSE Rejected("NoOutput", NoOutputMessage)
    IN  settle(JSONParse(stdout))

\* executeSfCommandInProjectRaw, sfCommand.ts 333-384
ExecuteSfCommandInProjectRawCb(command, error, stdout, stderr) ==
    LET settle(jsonError) ==
            IF error.raised THEN
                IF IsNotFound(error) THEN Rejected("ExecutableNotFound", NotFoundMessage)
                ELSE IF stdout # <<>> /\ IsAnalysis(command) THEN Resolved("Raw", stdout)
                ELSE IF stdout # <<>> /\ Includes(command, <<"--json">>) /\ ~jsonError.threw
                    THEN Rejected("CommandFailed", jsonError.text)
                ELSE Rejected("RawFailure", error.message)
            ELSE Resolved("Raw", stdout)
    IN  settle(StdoutJsonError(stdout))

Variants == {"executeSfCommand", "executeSfCommandRaw",
             "executeSfCommandInProject", "executeSfCommandInProjectRaw"}
Structured == {"executeSfCommand", "executeSfCommandInProject"}
RawVariants == {"executeSfCommandRaw", "executeSfCommandInProjectRaw"}
ProjectScoped == {"executeSfCommandInProject", "executeSfCommandInProjectRaw"}

\* the callback the invoker of that name hands to exec
Callback(variant, command, error, stdout, stderr) ==
    CASE variant = "executeSfCommand" -> ExecuteSfCommandCb(command, error, stdout, stderr)
      [] variant = "executeSfCommandRaw" -> ExecuteSfCommandRawCb(command, error, stdout, stderr)
      [] variant = "executeSfCommandInProject" ->
            ExecuteSfCommandInProjectCb(command, error, stdout, stderr)
      [] variant = "executeSfCommandInProjectRaw" ->
            ExecuteSfCommandInProjectRawCb(command, error, stdout, stderr)

\* The calls of resolve and reject a callback makes on one child result, each
\* named by the line it stands on, in the order made; a branch ends where the
\* code returns or the callback's body ends.
ResolveSites == {68, 157, 165, 270, 352, 383}
RejectSites == {80, 98, 101, 116, 118, 124, 144, 160, 282, 289, 294, 298, 339, 370, 378}

\* mutant: the return after resolve(result) on line 69 is missing
ExecuteSfCommandSettles_NoReturn(command, error, stdout, stderr) ==
    LET rest(details) ==
            IF error.raised THEN
                IF IsNotFound(error) THEN <<80>>
                ELSE IF details.threw THEN <<101>> ELSE <<98>>
            ELSE IF StderrIsError(stderr) THEN
                IF details.threw THEN <<118>> ELSE <<116>>
            ELSE <<124>>
        body(out, details) ==
            IF stdout # <<>> /\ out.ok THEN <<68>> \o rest(details) ELSE rest(details)
    IN  body(JSONParse(stdout), StderrDetails(stderr))

\* executeSfCommand 60-125
ExecuteSfCommandSettles(command, error, stdout, stderr) ==
    LET rest(details) ==
            IF error.raised THEN
                IF IsNotFound(error) THEN <<80>>
                ELSE IF details.threw THEN <<101>> ELSE <<98>>
            ELSE IF StderrIsError(stderr) THEN
                IF details.threw THEN <<118>> ELSE <<116>>
            ELSE <<124>>
        body(out, details) ==
            IF stdout # <<>> /\ out.ok THEN <<68>> ELSE rest(details)
    IN  body(JSONParse(stdout), StderrDetails(stderr))

\* executeSfCommandRaw 138-166
ExecuteSfCommandRawSettles(command, error, stdout, stderr) ==
    IF error.raised THEN
        IF IsNotFound(error) THEN <<144>>
        ELSE IF stdout # <<>> /\ IsAnalysis(command) THEN <<157>>
        ELSE <<160>>
    ELSE <<165>>

\* executeSfCommandInProject 262-299
ExecuteSfCommandInProjectSettles(command, error, stdout, stderr) ==
    LET body(out) ==
            IF stdout # <<>> /\ out.ok THEN <<270>>
            ELSE IF error.raised THEN
                IF IsNotFound(error) THEN <<282>> ELSE <<289>>
            ELSE IF StderrIsError(stderr) THEN <<294>>
            ELSE <<298>>
    IN  body(JSONParse(stdout))

\* executeSfCommandInProjectRaw 333-384
ExecuteSfCommandInProjectRawSettles(command, error, stdout, stderr) ==
    LET body(jsonError) ==
            IF error.raised THEN
                IF IsNotFound(error) THEN <<339>>
                ELSE IF stdout # <<>> /\ IsAnalysis(command) THEN <<352>>
                ELSE IF stdout # <<>> /\ Includes(command, <<"--json">>) /\ ~jsonError.threw
                    THEN <<370>>
                ELSE <<378>>
            ELSE <<383>>
    IN  body(StdoutJsonError(stdout))

\* the settle calls of the callback the invoker of that name hands to exec
Settlements(variant, command, error, stdout, stderr) ==
    CASE variant = "executeSfCommand" -> ExecuteSfCommandSettles(command, error, stdout, stderr)
      [] variant = "executeSfCommandRaw" ->
            ExecuteSfCommandRawSettles(command, error, stdout, stderr)
      [] variant = "executeSfCommandInProject" ->
            ExecuteSfCommandInProjectSettles(command, error, stdout, stderr)
      [] variant = "executeSfCommandInProjectRaw" ->
            ExecuteSfCommandInProjectRawSettles(command, error, stdout, stderr)

-----------------------------------------------------------------------------
(* The filesystem the probes read, and path.resolve / path.join            *)

ProcessCwd == <<"/", "srv">>

\* path.resolve(p): an absolute path stays, a relative one is taken from the cwd
PathResolve(p) ==
    IF p # <<>> /\ p[1] = "/" THEN p ELSE ProcessCwd \o <<"/">> \o p

\* path.join(dir, name)
PathJoin(dir, name) == dir \o <<"/", name>>

ProjA == <<"/", "proj", "/", "a">>
ProjRel == <<"proj">>
PlainDir == <<"/", "tmp", "/", "plain">>
HostsFile == <<"/", "etc", "/", "hosts">>
MissingPath == <<"/", "missing">>

FsDirs == {ProcessCwd, ProjA, PathJoin(ProjA, ".sf"),
           PathResolve(ProjRel), PathJoin(PathResolve(ProjRel), ".sf"), PlainDir}
FsFiles == {HostsFile}

ExistsSync(p) == p \in FsDirs \cup FsFiles
\* statSync(p).isDirectory()
IsDirectory(p) == p \in FsDirs

\* the project paths callers pass
ProjectPaths == {<<>>, <<SP>>, MissingPath, HostsFile, PlainDir, ProjA, ProjRel}

-----------------------------------------------------------------------------
(* validateProjectPath, sfCommand.ts 200-230                               *)

Passed == [threw |-> FALSE, message |-> <<>>]
Throw(message) == [threw |-> TRUE, message |-> message]

\* 213-220: the Error thrown inside the try is caught by the catch of the same
\* statement and thrown again behind "Cannot access project path: "
StatCheck(resolvedPath) ==
    LET inTry == IF ~IsDirectory(resolvedPath)
                 THEN Throw(<<"Project path is not a directory: ">> \o resolvedPath)
                 ELSE Passed
    IN  IF inTry.threw
        THEN Throw(<<"Cannot access project path: ">> \o inTry.message)
        ELSE Passed

\* the filesystem probes a call makes, in order: existsSync(p) and statSync(p)
ExistsProbe(p) == [call |-> "existsSync", path |-> p]
StatProbe(p) == [call |-> "statSync", path |-> p]
\* how validateProjectPath ends, with the probes it made on the way
Probed(result, probes) ==
    [threw |-> result.threw, message |-> result.message, probes |-> probes]

\* mutant: the existence probe is made before the empty-path test
ValidateProjectPath_ExistsFirst(projectPath) ==
    LET resolvedPath == PathResolve(projectPath)
    IN  IF ~ExistsSync(resolvedPath)
            THEN Probed(Throw(<<"Project path does not exist: ">> \o resolvedPath),
                        <<ExistsProbe(resolvedPath)>>)
        ELSE IF projectPath = <<>> \/ IsBlank(projectPath)
            THEN Probed(Throw(<<"Project path cannot be empty">>), <<ExistsProbe(resolvedPath)>>)
        ELSE Probed(StatCheck(resolvedPath),
                    <<ExistsProbe(resolvedPath), StatProbe(resolvedPath)>>)

\* mutant: the marker entry is not looked for
ValidateProjectPath_NoMarker(projectPath) ==
    LET resolvedPath == PathResolve(projectPath)
    IN  IF projectPath = <<>> \/ IsBlank(projectPath)
            THEN Probed(Throw(<<"Project path cannot be empty">>), <<>>)
        ELSE IF ~ExistsSync(resolvedPath)
            THEN Probed(Throw(<<"Project path does not exist: ">> \o resolvedPath),
                        <<ExistsProbe(resolvedPath)>>)
        ELSE Probed(StatCheck(resolvedPath),
                    <<ExistsProbe(resolvedPath), StatProbe(resolvedPath)>>)

ValidateProjectPath(projectPath) ==
    LET resolvedPath == PathResolve(projectPath)
    IN  IF projectPath = <<>> \/ IsBlank(projectPath)
            THEN Probed(Throw(<<"Project path cannot be empty">>), <<>>)
        ELSE IF ~ExistsSync(resolvedPath)
            THEN Probed(Throw(<<"Project path does not exist: ">> \o resolvedPath),
                        <<ExistsProbe(resolvedPath)>>)
        ELSE IF StatCheck(resolvedPath).threw
            THEN Probed(StatCheck(resolvedPath),
                        <<ExistsProbe(resolvedPath), StatProbe(resolvedPath)>>)
        ELSE IF ~ExistsSync(PathJoin(resolvedPath, ".sf"))
            THEN Probed(Throw(<<"Project path does not contain .sf directory. ",
                                "Please ensure this is a valid Salesforce DX project: ">>
                              \o resolvedPath),
                        <<ExistsProbe(resolvedPath), StatProbe(resolvedPath),
                          ExistsProbe(PathJoin(resolvedPath, ".sf"))>>)
        ELSE Probed(Passed,
                    <<ExistsProbe(resolvedPath), StatProbe(resolvedPath),
                      ExistsProbe(PathJoin(resolvedPath, ".sf"))>>)

\* the failure kind an Error of validateProjectPath reports: how its message opens
ValidationKind(message) ==
    CASE message[1] = "Project path cannot be empty" -> "InvalidInput"
      [] message[1] = "Project path does not exist: " -> "PathNotFound"
      [] message[1] = "Project path is not a directory: " -> "NotADirectory"
      [] message[1] = "Project path does not contain .sf directory. " -> "NotAProject"
      [] message[1] = "Cannot access project path: " -> "AccessFailure"

-----------------------------------------------------------------------------
(* findSfPath, sfCommand.ts 8-50                                           *)

COMMON_SF_PATHS ==
    [darwin |-> <<"/usr/local/bin/sf", "/opt/homebrew/bin/sf", "/usr/bin/sf",
                  "/home/u/.local/bin/sf">>,
     linux |-> <<"/usr/local/bin/sf", "/usr/bin/sf", "/opt/salesforce/cli/bin/sf",
                 "/home/u/.local/bin/sf">>,
     win32 |-> <<"C:\\Program Files\\sf\\bin\\sf.cmd", "C:\\Program Files\\sf\\bin\\sf.exe",
                 "C:\\Program Files (x86)\\sf\\bin\\sf.cmd",
                 "C:\\Program Files (x86)\\sf\\bin\\sf.exe",
                 "C:\\Users\\u\\AppData\\Local\\sf\\bin\\sf.cmd",
                 "C:\\Users\\u\\AppData\\Local\\sf\\bin\\sf.exe">>]

\* COMMON_SF_PATHS[currentPlatform] || COMMON_SF_PATHS.linux
PathsToCheck(currentPlatform) ==
    IF currentPlatform \in DOMAIN COMMON_SF_PATHS
    THEN COMMON_SF_PATHS[currentPlatform]
    ELSE COMMON_SF_PATHS.linux

\* 41-46: the paths handed to existsSync by the loop, which returns at the first hit
LoopProbes(paths, onDisk) ==
    LET hits == {i \in 1..Len(paths) : paths[i] \in onDisk}
    IN  IF hits = {} THEN paths
        ELSE SubSeq(paths, 1, CHOOSE i \in hits : \A j \in hits : i <= j)

\* mutant: the last existing candidate of the list is taken
FindSfPath_LastHit(cached, currentPlatform, onDisk) ==
    LET paths == PathsToCheck(currentPlatform)
        hits == {i \in 1..Len(paths) : paths[i] \in onDisk}
        found == IF hits = {} THEN "sf"
                 ELSE paths[CHOOSE i \in hits : \A j \in hits : i >= j]
    IN  IF cached # <<>> THEN [path |-> cached[1], cache |-> cached, probes |-> <<>>]
        ELSE [path |-> found, cache |-> <<found>>, probes |-> paths]

\* mutant: a cached fallback "sf" does not count as resolved and the disk is
\* probed again
FindSfPath_FallbackNotCached(cached, currentPlatform, onDisk) ==
    LET paths == PathsToCheck(currentPlatform)
        hits == {i \in 1..Len(paths) : paths[i] \in onDisk}
        found == IF hits = {} THEN "sf"
                 ELSE paths[CHOOSE i \in hits : \A j \in hits : i <= j]
    IN  IF cached # <<>> /\ cached # <<"sf">>
        THEN [path |-> cached[1], cache |-> cached, probes |-> <<>>]
        ELSE [path |-> found, cache |-> <<found>>, probes |-> LoopProbes(paths, onDisk)]

\* mutant: the cache is not consulted, every call probes the disk again
FindSfPath_NoCache(cached, currentPlatform, onDisk) ==
    LET paths == PathsToCheck(currentPlatform)
        hits == {i \in 1..Len(paths) : paths[i] \in onDisk}
        found == IF hits = {} THEN "sf"
                 ELSE paths[CHOOSE i \in hits : \A j \in hits : i <= j]
    IN  [path |-> found, cache |-> <<found>>, probes |-> LoopProbes(paths, onDisk)]

\* the value returned, the cache it leaves and the paths it handed to existsSync;
\* cached = <<>> models null
FindSfPath(cached, currentPlatform, onDisk) ==
    LET paths == PathsToCheck(currentPlatform)
        hits == {i \in 1..Len(paths) : paths[i] \in onDisk}
        found == IF hits = {} THEN "sf"
                 ELSE paths[CHOOSE i \in hits : \A j \in hits : i <= j]
    IN  IF cached # <<>> THEN [path |-> cached[1], cache |-> cached, probes |-> <<>>]
        ELSE [path |-> found, cache |-> <<found>>, probes |-> LoopProbes(paths, onDisk)]

-----------------------------------------------------------------------------
(* The command handed to exec                                              *)

\* mutant: every "sf" that whitespace follows is replaced, as a /g flag would
SfReplace_All(command, sfPath) ==
    LET RECURSIVE from(_)
        from(i) ==
            IF i > Len(command) THEN <<>>
            ELSE IF command[i] = "sf" /\ i < Len(command) /\ IsWs(command[i + 1])
                 THEN <<Q, sfPath, Q, SP>> \o from(SkipWs(command, i + 1))
                 ELSE <<command[i]>> \o from(i + 1)
    IN  from(1)

\* command.replace(/^sf\s+/, `"${sfPath}" `)
SfReplace(command, sfPath) ==
    IF Len(command) >= 2 /\ command[1] = "sf" /\ IsWs(command[2])
    THEN <<Q, sfPath, Q, SP>> \o SubSeq(command, SkipWs(command, 2), Len(command))
    ELSE command

\* mutant: the directory change is written as for a POSIX shell on every platform
FullCommand_PosixCd(variant, command, projectPath, sfPath, currentPlatform) ==
    IF variant \in ProjectScoped
    THEN <<"cd ", Q>> \o PathResolve(projectPath) \o <<Q, " && ">> \o SfReplace(command, sfPath)
    ELSE SfReplace(command, sfPath)

\* mutant: the project-scoped command is run without the directory change
FullCommand_NoCd(variant, command, projectPath, sfPath, currentPlatform) ==
    SfReplace(command, sfPath)

\* sfCommand.ts 54, 132 / 249-256, 321-327
FullCommand(variant, command, projectPath, sfPath, currentPlatform) ==
    IF variant \in ProjectScoped
    THEN (IF currentPlatform = "win32" THEN <<"cd /d ", Q>> ELSE <<"cd ", Q>>)
         \o PathResolve(projectPath) \o <<Q, " && ">> \o SfReplace(command, sfPath)
    ELSE SfReplace(command, sfPath)

-----------------------------------------------------------------------------
(* What a child process can hand to the exec callback                      *)

Commands ==
    {<<"sf", SP, "org", SP, "list", SP, "--json">>,
     <<"sf", SP, "apex", SP, "run">>,
     <<"sf", SP, "scanner", SP, "run", SP, "--json">>,
     <<"sf", SP, "code-analyzer", SP, "run">>,
     <<"sf", SP, SP, "data", SP, "query", SP, "-q", SP, "sf", SP, "org">>}

Stdouts ==
    {<<>>,
     <<"{", Q, "status", Q, ":", "0", ",", Q, "result", Q, ":", "[", "]", "}", NL>>,
     <<"{", Q, "status", Q, ":", "1", ",", Q, "message", Q, ":", Q, "boom", Q, ",",
       Q, "actions", Q, ":", "[", Q, "retry", Q, "]", "}">>,
     <<"null">>,
     <<"2", SP, "violations", SP, "found", NL>>,
     <<"{", Q, "status", Q, ":">>}

Stderrs ==
    {<<>>,
     <<"Warning", ":", SP, "update", SP, "available", NL>>,
     <<"Warning", ":", SP, "deprecated", NL, "Error", ":", SP, "deploy", SP, "failed", NL>>,
     <<"deploy", SP, "failed", NL>>,
     <<"sh", ":", SP, "sf", ":", SP, "command", SP, "not", SP, "found", NL>>,
     <<"'sf'", SP, "is", SP, "not", SP, "recognized", SP, "as", SP, "a", SP, "command", NL>>,
     <<"{", Q, "message", Q, ":", Q, "boom", Q, "}">>,
     <<"{", Q, "message", Q, ":", Q, "boom", Q, ",", Q, "actions", Q, ":",
       "[", Q, "retry", Q, ",", Q, "login", Q, "]", ",",
       Q, "stack", Q, ":", Q, "at", SP, "x", Q, "}", NL>>,
     <<"{", Q, "message", Q, ":", Q, "boom", Q, ",", Q, "actions", Q, ":", Q, "retry", Q, "}">>,
     <<"{", Q, "message", Q, ":", Q, "sf", ":", SP, "command", SP, "not", SP, "found", Q, "}">>,
     <<"null">>}

\* the commands the invocations of the process model carry
InvokedCommands ==
    {<<"sf", SP, "org", SP, "list", SP, "--json">>,
     <<"sf", SP, "scanner", SP, "run", SP, "--json">>}

\* what the children of the process model print: enough for every way a promise settles
InvokedStdouts ==
    {<<>>,
     <<"{", Q, "status", Q, ":", "0", ",", Q, "result", Q, ":", "[", "]", "}", NL>>,
     <<"2", SP, "violations", SP, "found", NL>>}
InvokedStderrs ==
    {<<>>,
     <<"deploy", SP, "failed", NL>>,
     <<"sh", ":", SP, "sf", ":", SP, "command", SP, "not", SP, "found", NL>>,
     <<"{", Q, "message", Q, ":", Q, "boom", Q, "}">>}

ExitKinds == {"none", "exit", "maxbuffer"}

\* the error exec passes to its callback: null on exit code 0, "Command failed:
\* <cmd>\n<stderr>" on a non-zero exit, a RangeError when maxBuffer is exceeded
ExecError(exitKind, fullCommand, stderr) ==
    CASE exitKind = "none" -> NoError
      [] exitKind = "exit" ->
            [raised |-> TRUE, message |-> <<"Command failed: ">> \o fullCommand \o <<NL>> \o stderr]
      [] exitKind = "maxbuffer" ->
            [raised |-> TRUE, message |-> <<"stdout", SP, "maxBuffer length exceeded">>]

ValidProjects == {p \in ProjectPaths : ~ValidateProjectPath(p).threw}

-----------------------------------------------------------------------------
(* The process: invocations, their synchronous section and their callback  *)

NumCalls == 2
Calls == 1..NumCalls

Platforms == {"linux", "win32"}
PresentChoices == {{}, {"/usr/bin/sf", "C:\\Program Files\\sf\\bin\\sf.exe"}}

Pending == [ok |-> FALSE, kind |-> "pending"]
Idle == [pc |-> "idle", variant |-> "none", command |-> <<>>, projectPath |-> <<>>,
         cacheBefore |-> <<>>, validated |-> FALSE, sfPath |-> "", child |-> <<>>,
         spawned |-> 0, probes |-> <<>>, outcome |-> Pending]

\* buildSfCommand has not been called
NoBuild == [done |-> FALSE, baseCommand |-> <<>>, targetOrg |-> JUndef, sourcePath |-> JUndef,
            configFile |-> [exists |-> FALSE, readable |-> FALSE, content |-> <<>>],
            result |-> [threw |-> FALSE, command |-> <<>>],
            ran |-> FALSE, variant |-> "none", payload |-> JUndef,
            outcome |-> Rejected("pending", <<>>), configOps |-> <<>>]

NoCallback == [variant |-> "none", command |-> <<>>, exitKind |-> "none", error |-> NoError,
               stdout |-> <<>>, stderr |-> <<>>, outcome |-> Rejected("pending", <<>>),
               projectPath |-> <<>>, sfPath |-> "", fullCommand |-> <<>>, settled |-> <<>>]

\* the logout tool has not been called
NoLogout == [called |-> FALSE, targetOrg |-> JUndef, all |-> JUndef, spawned |-> 0,
             command |-> <<>>, settled |-> FALSE, threw |-> FALSE, text |-> <<>>]

\* the call slots of executeAnonymousApex
ApexCalls == {1, 2}
NotRead == [done |-> FALSE, found |-> FALSE, code |-> <<>>]
ApexIdle == [pc |-> "idle", sourcePath |-> <<>>, code |-> <<>>, targetOrg |-> JUndef,
             now |-> 0, tempFilePath |-> <<>>, wrote |-> FALSE, command |-> <<>>,
             childRead |-> NotRead, unlinks |-> <<>>,
             outcome |-> Rejected("pending", <<>>),
             threw |-> FALSE, message |-> <<>>]

Init ==
    /\ cachedSfPath = <<>>
    /\ platform \in Platforms
    /\ present \in PresentChoices
    /\ calls = [c \in Calls |-> Idle]
    /\ running = 0
    /\ cb = NoCallback
    /\ sfPaths = <<>>
    /\ built = NoBuild
    /\ logout = NoLogout
    /\ apex = [c \in ApexCalls |-> ApexIdle]
    /\ clock = 0
    /\ tempFiles = {}

\* mutant: a project-scoped invoker resolves the executable without validating first
FirstStep_NoValidation(variant) == "resolve"

\* the first statement of an invoker: validateProjectPath (243, 315) in the
\* project-scoped ones, findSfPath (53, 131) in the others
FirstStep(variant) == IF variant \in ProjectScoped THEN "validate" ELSE "resolve"

\* a tool handler calls an invoker; the event loop runs one synchronous section at a time
Invoke(c) ==
    /\ running = 0
    /\ calls[c].pc = "idle"
    /\ \E variant \in Variants, command \in InvokedCommands, projectPath \in ProjectPaths :
          /\ variant \notin ProjectScoped => projectPath = <<>>
          /\ calls' = [calls EXCEPT ![c] =
                [Idle EXCEPT !.pc = FirstStep(variant), !.variant = variant,
                             !.command = command, !.projectPath = projectPath,
                             !.cacheBefore =
                                 IF variant \in ProjectScoped THEN cachedSfPath ELSE <<>>]]
    /\ running' = c
    /\ UNCHANGED <<cachedSfPath, envVars, cb, fnVars, toolVars>>

\* validateProjectPath(projectPath): throws to the caller, or lets the invoker go on
Validate(c) ==
    /\ running = c
    /\ calls[c].pc = "validate"
    /\ LET v == ValidateProjectPath(calls[c].projectPath)
       IN  calls' = [calls EXCEPT ![c] =
                IF v.threw
                THEN [@ EXCEPT !.pc = "thrown", !.probes = v.probes,
                               !.outcome = [ok |-> FALSE, kind |-> ValidationKind(v.message)]]
                ELSE [@ EXCEPT !.pc = "resolve", !.validated = TRUE, !.cacheBefore = <<>>,
                               !.probes = v.probes]]
    /\ UNCHANGED <<cachedSfPath, running, envVars, cb, fnVars, toolVars>>

\* const sfPath = findSfPath()
ResolveSfPath(c) ==
    /\ running = c
    /\ calls[c].pc = "resolve"
    /\ LET r == FindSfPath(cachedSfPath, platform, present)
       IN  /\ cachedSfPath' = r.cache
           /\ calls' = [calls EXCEPT ![c] = [@ EXCEPT !.pc = "spawn", !.sfPath = r.path]]
    /\ UNCHANGED <<running, envVars, cb, fnVars, toolVars>>

\* mutant: a call whose promise was rejected runs its command once more
Spawn_Retry(c) ==
    /\ running = c
    /\ calls[c].pc = "spawn" \/ (calls[c].pc = "settled" /\ ~calls[c].outcome.ok)
    /\ calls' = [calls EXCEPT ![c] =
            [@ EXCEPT !.pc = "waiting",
                      !.child = FullCommand(calls[c].variant, calls[c].command,
                                            calls[c].projectPath, calls[c].sfPath, platform),
                      !.spawned = @ + 1]]
    /\ running' = 0
    /\ UNCHANGED <<cachedSfPath, envVars, cb, fnVars, toolVars>>

\* exec(fullCommand, {maxBuffer}, callback): the child starts, the invoker returns its promise
Spawn(c) ==
    /\ running = c
    /\ calls[c].pc = "spawn"
    /\ calls' = [calls EXCEPT ![c] =
            [@ EXCEPT !.pc = "waiting",
                      !.child = FullCommand(calls[c].variant, calls[c].command,
                                            calls[c].projectPath, calls[c].sfPath, platform),
                      !.spawned = @ + 1]]
    /\ running' = 0
    /\ UNCHANGED <<cachedSfPath, envVars, cb, fnVars, toolVars>>

\* how the callback of a call settles its promise when its child ends this way
Settles(call, exitKind, stdout, stderr) ==
    LET brief(outcome) == [ok |-> outcome.ok, kind |-> outcome.kind]
    IN  brief(Callback(call.variant, call.command,
                       ExecError(exitKind, call.child, stderr), stdout, stderr))

\* the child exits and exec runs the callback, which settles the promise
ChildExit(c) ==
    /\ running = 0
    /\ calls[c].pc = "waiting"
    /\ \E exitKind \in ExitKinds, stdout \in InvokedStdouts, stderr \in InvokedStderrs :
          calls' = [calls EXCEPT ![c].pc = "settled", ![c].child = <<>>,
                                 ![c].outcome = Settles(calls[c], exitKind, stdout, stderr)]
    /\ running' = c
    /\ UNCHANGED <<cachedSfPath, envVars, cb, fnVars, toolVars>>

\* the awaiting tool handler takes the value or the exception; the slot is free again
Return(c) ==
    /\ running = c
    /\ calls[c].pc \in {"thrown", "settled"}
    /\ calls' = [calls EXCEPT ![c] = Idle]
    /\ running' = 0
    /\ UNCHANGED <<cachedSfPath, envVars, cb, fnVars, toolVars>>

Next ==
    \E c \in Calls :
        \/ Invoke(c)
        \/ Validate(c)
        \/ ResolveSfPath(c)
        \/ Spawn(c)
        \/ ChildExit(c)
        \/ Return(c)

Spec == Init /\ [][Next]_vars

-----------------------------------------------------------------------------
(* One exec callback run on every child result                             *)

\* the callback of an invoker, with the closure its invoker builds, applied to
\* what a child can deliver
RunCallback(variant) ==
    /\ \E command \in Commands, projectPath \in ValidProjects,
          exitKind \in ExitKinds, stdout \in Stdouts, stderr \in Stderrs :
           LET run(error, sfPath, fullCommand) ==
                   cb' = [variant |-> variant, command |-> command, exitKind |-> exitKind,
                          error |-> error, stdout |-> stdout, stderr |-> stderr,
                          outcome |-> Callback(variant, command, error, stdout, stderr),
                          projectPath |-> IF variant \in ProjectScoped THEN projectPath ELSE <<>>,
                          sfPath |-> sfPath, fullCommand |-> fullCommand,
                          settled |-> Settlements(variant, command, error, stdout, stderr)]
               spawn(sfPath, fullCommand) ==
                   run(ExecError(exitKind, fullCommand, stderr), sfPath, fullCommand)
               closure(sfPath) ==
                   spawn(sfPath, FullCommand(variant, command, projectPath, sfPath, platform))
           IN  /\ variant \notin ProjectScoped => projectPath = ProjA
               /\ closure(FindSfPath(cachedSfPath, platform, present).path)
               /\ UNCHANGED <<lifeVars, envVars, fnVars, toolVars>>

CallbackExecuteSfCommand == cb = NoCallback /\ RunCallback("executeSfCommand")
CallbackExecuteSfCommandRaw == cb = NoCallback /\ RunCallback("executeSfCommandRaw")
CallbackExecuteSfCommandInProject == cb = NoCallback /\ RunCallback("executeSfCommandInProject")
CallbackExecuteSfCommandInProjectRaw == cb = NoCallback /\ RunCallback("executeSfCommandInProjectRaw")

NextCallback ==
    \/ CallbackExecuteSfCommand
    \/ CallbackExecuteSfCommandRaw
    \/ CallbackExecuteSfCommandInProject
    \/ CallbackExecuteSfCommandInProjectRaw

SpecCallback == Init /\ [][NextCallback]_vars

-----------------------------------------------------------------------------
(* findSfPath called again and again while the files on disk come and go   *)

MaxResolutions == 2
OsFamilies == {"darwin", "linux", "win32", "freebsd"}
\* the candidate paths that may or may not exist on disk
DiskCandidates ==
    {"/usr/bin/sf", "/opt/salesforce/cli/bin/sf",
     "C:\\Program Files\\sf\\bin\\sf.exe", "C:\\Program Files (x86)\\sf\\bin\\sf.cmd"}

InitFindSfPath ==
    /\ cachedSfPath = <<>>
    /\ platform \in OsFamilies
    /\ present \in SUBSET DiskCandidates
    /\ calls = [c \in Calls |-> Idle]
    /\ running = 0
    /\ cb = NoCallback
    /\ sfPaths = <<>>
    /\ built = NoBuild
    /\ logout = NoLogout
    /\ apex = [c \in ApexCalls |-> ApexIdle]
    /\ clock = 0
    /\ tempFiles = {}

\* an invoker calls findSfPath() (53, 131, 245, 317)
FindSfPathCall ==
    /\ Len(sfPaths) < MaxResolutions
    /\ LET r == FindSfPath(cachedSfPath, platform, present)
       IN  /\ cachedSfPath' = r.cache
           /\ sfPaths' = Append(sfPaths, [returned |-> r.path, onDisk |-> present,
                                           probes |-> r.probes])
    /\ UNCHANGED <<envVars, calls, running, cb, built, toolVars>>

\* somebody installs an executable at a candidate path
CreateCandidate ==
    /\ \E p \in DiskCandidates \ present : present' = present \cup {p}
    /\ UNCHANGED <<cachedSfPath, platform, calls, running, cb, fnVars, toolVars>>

\* somebody removes the executable at a candidate path
DeleteCandidate ==
    /\ \E p \in present : present' = present \ {p}
    /\ UNCHANGED <<cachedSfPath, platform, calls, running, cb, fnVars, toolVars>>

NextFindSfPath ==
    \/ FindSfPathCall
    \/ CreateCandidate
    \/ DeleteCandidate

SpecFindSfPath == InitFindSfPath /\ [][NextFindSfPath]_vars

-----------------------------------------------------------------------------
(* getDefaultUsername (sfCommand.ts 176-193) and buildSfCommand            *)
(* (shared/connection.js 109-125)                                          *)

\* the state of <project>/.sfdx/sfdx-config.json when it is looked at
AbsentFile == [exists |-> FALSE, readable |-> FALSE, content |-> <<>>]
UnreadableFile == [exists |-> TRUE, readable |-> FALSE, content |-> <<>>]
FileWith(content) == [exists |-> TRUE, readable |-> TRUE, content |-> content]

\* join(resolve(projectPath), ".sfdx", "sfdx-config.json")
ConfigPath(projectPath) ==
    PathJoin(PathJoin(PathResolve(projectPath), ".sfdx"), "sfdx-config.json")

\* 176-193: undefined when the file is absent and when reading, parsing or the
\* property read throws; else config.defaultusername, whatever its type
GetDefaultUsername(projectPath, configFile) ==
    LET read(config) ==
            IF ~config.ok THEN JUndef
            ELSE IF ~CanRead(config.val) THEN JUndef
            ELSE Get(config.val, <<"defaultusername">>)
    IN  IF ~configFile.exists THEN JUndef
        ELSE IF ~configFile.readable THEN JUndef
        ELSE read(JSONParse(configFile.content))

Built(command) == [threw |-> FALSE, command |-> command]
\* a TypeError leaves buildSfCommand: nothing is returned
BuildThrew == [threw |-> TRUE, command |-> <<>>]

\* mutant: only a missing or empty targetOrg counts as absent, a blank one does not
NoOrg_OnlyMissing(org) == ~Truthy(org)

\* !orgToUse || !orgToUse.trim(), for the string or undefined a caller passes
NoOrg(org) == ~Truthy(org) \/ IsBlank(org.v)

\* mutant: the structured-output flag is appended whatever the command holds
WithJsonFlag_Always(command) == command \o <<SP, "--json">>

\* 120-124: if (!command.includes("--json")) command += " --json"
WithJsonFlag(command) ==
    IF Includes(command, <<"--json">>) THEN command ELSE command \o <<SP, "--json">>

\* connection.js 109-125; orgToUse.trim() on a truthy value that is not a string
\* is a TypeError that nothing catches
BuildSfCommand(baseCommand, targetOrg, sourcePath, configFile) ==
    LET withOrg(orgToUse) ==
            IF ~Truthy(orgToUse) THEN Built(WithJsonFlag(baseCommand))
            ELSE IF orgToUse.t # "str" THEN BuildThrew
            ELSE IF IsBlank(orgToUse.v) THEN Built(WithJsonFlag(baseCommand))
            ELSE Built(WithJsonFlag(baseCommand \o <<SP, "--target-org", SP>> \o ToStr(orgToUse)))
    IN  IF NoOrg(targetOrg) /\ Truthy(sourcePath)
        THEN withOrg(GetDefaultUsername(sourcePath.v, configFile))
        ELSE withOrg(targetOrg)

\* the filesystem calls buildSfCommand makes on the project's config file:
\* none unless it calls getDefaultUsername (113-114), which tests for the file
\* (180) and reads it when it is there (184)
ConfigOps(targetOrg, sourcePath, configFile) ==
    IF NoOrg(targetOrg) /\ Truthy(sourcePath)
    THEN <<"existsSync">> \o (IF configFile.exists THEN <<"readFileSync">> ELSE <<>>)
    ELSE <<>>

RECURSIVE JSONStringify(_)
RECURSIVE StringifyMembers(_, _)
\* the members of an object, one after the other, comma separated
StringifyMembers(members, keys) ==
    LET k == CHOOSE x \in keys : TRUE
    IN  IF keys = {} THEN <<>>
        ELSE <<Q>> \o k \o <<Q, ":">> \o JSONStringify(members[k])
             \o (IF keys = {k} THEN <<>> ELSE <<",">> \o StringifyMembers(members, keys \ {k}))

\* the text a child prints for a payload: JSON.stringify of it
JSONStringify(val) ==
    CASE val.t = "null" -> <<"null">>
      [] val.t \in {"bool", "num"} -> val.v
      [] val.t = "str" -> <<Q>> \o val.v \o <<Q>>
      [] val.t = "arr" ->
            <<"[">> \o Join([i \in 1..Len(val.v) |-> JSONStringify(val.v[i])], <<",">>) \o <<"]">>
      [] val.t = "obj" -> <<"{">> \o StringifyMembers(val.v, DOMAIN val.v) \o <<"}">>

BaseCommands ==
    {<<"sf", SP, "org", SP, "list">>,
     <<"sf", SP, "data", SP, "query", SP, "--json">>,
     <<"sf", SP, "data", SP, "query", SP, "--json", SP, "--query", SP, Q, "--json", Q>>}

\* targetOrg as the tool handlers pass it: absent, empty, blank, a name
TargetOrgs ==
    {JUndef, JStr(<<>>), JStr(<<SP>>), JStr(<<"prod">>), JStr(<<"ci", "--json">>)}

SourcePaths == {JUndef, JStr(<<>>), JStr(ProjA), JStr(MissingPath)}

ConfigFiles ==
    {AbsentFile, UnreadableFile,
     FileWith(<<"{">>),
     FileWith(<<"null">>),
     FileWith(<<"2">>),
     FileWith(<<Q, "dev", Q>>),
     FileWith(<<"{", "}">>),
     FileWith(<<"{", Q, "defaultusername", Q, ":", Q, "dev@example.com", Q, "}", NL>>),
     FileWith(<<"{", Q, "defaultusername", Q, ":", Q, SP, Q, "}">>),
     FileWith(<<"{", Q, "defaultusername", Q, ":", "127", "}">>),
     FileWith(<<"{", Q, "defaultusername", Q, ":", "0", "}">>),
     FileWith(<<"{", Q, "defaultusername", Q, ":", "true", "}">>),
     FileWith(<<"{", Q, "defaultusername", Q, ":", "null", "}">>),
     FileWith(<<"{", Q, "defaultusername", Q, ":", "{", "}", "}">>),
     FileWith(<<"{", Q, "defaultusername", Q, ":", "[", Q, "dev", Q, "]", "}">>)}

\* what a successful child prints: the payloads it serializes
Payloads ==
    {JNull, JNum("0"), JBool("false"), JStr(<<"ok">>), JArr(<<>>),
     JObj((<<"status">> :> JNum("0")) @@ (<<"result">> :> JArr(<<JStr(<<"dev", SP, "org">>), JNull>>))),
     JObj((<<"status">> :> JNum("1")) @@ (<<"message">> :> JStr(<<"boom">>)))}

\* a tool handler builds its command
Build ==
    /\ ~built.done
    /\ \E baseCommand \in BaseCommands, targetOrg \in TargetOrgs,
          sourcePath \in SourcePaths, configFile \in ConfigFiles :
          /\ (~Truthy(sourcePath) \/ sourcePath.v = MissingPath) => configFile = AbsentFile
          /\ built' = [NoBuild EXCEPT
                          !.done = TRUE, !.baseCommand = baseCommand, !.targetOrg = targetOrg,
                          !.sourcePath = sourcePath, !.configFile = configFile,
                          !.result = BuildSfCommand(baseCommand, targetOrg, sourcePath, configFile),
                          !.configOps = ConfigOps(targetOrg, sourcePath, configFile)]
    /\ UNCHANGED <<lifeVars, envVars, cb, sfPaths, toolVars>>

\* the handler hands the command to a parsing invoker; the child exits with code 0,
\* having printed the serialization of a payload on stdout and nothing on stderr
RunBuilt(variant) ==
    /\ built.done /\ ~built.result.threw /\ ~built.ran
    /\ \E payload \in Payloads :
          built' = [built EXCEPT
                       !.ran = TRUE, !.variant = variant, !.payload = payload,
                       !.outcome = Callback(variant, built.result.command, NoError,
                                            JSONStringify(payload), <<>>)]
    /\ UNCHANGED <<lifeVars, envVars, cb, sfPaths, toolVars>>

RunBuiltExecuteSfCommand == RunBuilt("executeSfCommand")
RunBuiltExecuteSfCommandInProject == RunBuilt("executeSfCommandInProject")

NextBuild ==
    \/ Build
    \/ RunBuiltExecuteSfCommand
    \/ RunBuiltExecuteSfCommandInProject

SpecBuild == Init /\ [][NextBuild]_vars

-----------------------------------------------------------------------------
(* The logout tool: part_003 124-140 (logoutFromOrg), 441-489 (handler)    *)

\* 125-132: the command logoutFromOrg builds
LogoutCommand(targetOrg, all) ==
    <<"sf", SP, "org", SP, "logout">>
    \o (IF Truthy(all) THEN <<SP, "--all">>
        ELSE IF Truthy(targetOrg) THEN <<SP, "--target-org", SP>> \o ToStr(targetOrg)
        ELSE <<>>)
    \o <<SP, "--no-prompt", SP, "--json">>

\* JSON.stringify({ success: false, message })
FailureEnvelope(message) ==
    <<"{", Q, "success", Q, ":", "false", ",", Q, "message", Q, ":", Q, message, Q, "}">>

\* 454-479: the message the handler refuses with, <<>> when it goes on
LogoutRefusal(targetOrg, all) ==
    IF ~Truthy(targetOrg) /\ ~Truthy(all)
    THEN <<"Either targetOrg or all must be specified">>
    ELSE IF Truthy(targetOrg) /\ Truthy(all)
    THEN <<"Cannot specify both targetOrg and all">>
    ELSE <<>>

\* input.targetOrg: z.string().optional(); input.all: z.boolean().optional()
LogoutTargets ==
    {JUndef, JStr(<<>>), JStr(<<"prod">>), JStr(<<SP>>), JStr(<<"prod", SP, "--all">>)}
LogoutAlls == {JUndef, JBool("false"), JBool("true")}

\* the handler runs up to its return or up to the await on the child
LogoutTool ==
    /\ ~logout.called
    /\ \E targetOrg \in LogoutTargets, all \in LogoutAlls :
          LET refusal == LogoutRefusal(targetOrg, all)
              r == FindSfPath(cachedSfPath, platform, present)
          IN  IF refusal # <<>>
              THEN /\ logout' = [NoLogout EXCEPT
                                    !.called = TRUE, !.targetOrg = targetOrg, !.all = all,
                                    !.settled = TRUE,
                                    !.text = FailureEnvelope(refusal[1])]
                   /\ UNCHANGED cachedSfPath
              ELSE /\ logout' = [NoLogout EXCEPT
                                    !.called = TRUE, !.targetOrg = targetOrg, !.all = all,
                                    !.spawned = 1,
                                    !.command = SfReplace(LogoutCommand(targetOrg, all), r.path)]
                   /\ cachedSfPath' = r.cache
    /\ UNCHANGED <<calls, running, envVars, cb, fnVars, apexVars>>

\* the child exits; the callback of executeSfCommand settles the promise, the
\* handler answers with JSON.stringify(result) or throws what it was rejected with
LogoutChildExit ==
    /\ logout.called /\ ~logout.settled
    /\ \E exitKind \in ExitKinds, stdout \in InvokedStdouts, stderr \in InvokedStderrs :
          LET answer(outcome) ==
                  logout' = [logout EXCEPT
                                !.settled = TRUE,
                                !.threw = ~outcome.ok,
                                !.text = IF outcome.ok THEN JSONStringify(outcome.value)
                                         ELSE outcome.message]
          IN  answer(ExecuteSfCommandCb(LogoutCommand(logout.targetOrg, logout.all),
                                        ExecError(exitKind, logout.command, stderr),
                                        stdout, stderr))
    /\ UNCHANGED <<lifeVars, envVars, cb, fnVars, apexVars>>

NextLogout ==
    \/ LogoutTool
    \/ LogoutChildExit

SpecLogout == Init /\ [][NextLogout]_vars

-----------------------------------------------------------------------------
(* executeAnonymousApex, part_000 12-77                                    *)

MaxClock == 1

\* `temp_apex_${Date.now()}.apex`
TempFileName(now) == <<"temp_apex_", ToString(now), ".apex">>
\* join(sourcePath, tempFileName), as the filesystem resolves it
TempFilePath(sourcePath, now) == PathResolve(sourcePath) \o <<"/">> \o TempFileName(now)
\* `sf apex run --file "${tempFileName}"`
ApexBaseCommand(now) ==
    <<"sf", SP, "apex", SP, "run", SP, "--file", SP, Q>> \o TempFileName(now) \o <<Q>>

\* writeFileSync(path, code): creates the file or replaces its content
WriteFile(disk, path, code) ==
    {f \in disk : f.path # path} \cup {[path |-> path, code |-> code]}
\* unlinkSync(path): throws when the file is not there or may not be removed
Unlink(disk, path, denied) ==
    IF denied \/ ~\E f \in disk : f.path = path
    THEN [ok |-> FALSE, disk |-> disk]
    ELSE [ok |-> TRUE, disk |-> {f \in disk : f.path # path}]

\* mutant: the catch block throws without removing the file
CleanupAfterError_Skipped(disk, path, denied) ==
    [attempts |-> <<>>, disk |-> disk]

\* 50-54: try { unlinkSync(tempFilePath) } catch { }
CleanupAfterError(disk, path, denied) ==
    LET attempt(u) == [attempts |-> <<[path |-> path, ok |-> u.ok]>>, disk |-> u.disk]
    IN  attempt(Unlink(disk, path, denied))

\* 39-43: try { unlinkSync(tempFilePath) } catch { }
CleanupAfterSuccess(disk, path, denied) ==
    LET attempt(u) == [attempts |-> <<[path |-> path, ok |-> u.ok]>>, disk |-> u.disk]
    IN  attempt(Unlink(disk, path, denied))

\* 56-75: the message of the Error the catch block throws
ApexError(message, targetOrg) ==
    IF Includes(message, <<"No authenticated org found">>)
    THEN <<"No authenticated org found">>
         \o (IF Truthy(targetOrg) THEN <<" for '">> \o ToStr(targetOrg) \o <<"'">> ELSE <<>>)
         \o <<". ", "Please run 'sf org login' to authenticate.">>
    ELSE IF Includes(message, <<"expired access/refresh token">>)
    THEN <<"Authentication expired">>
         \o (IF Truthy(targetOrg) THEN <<" for org '">> \o ToStr(targetOrg) \o <<"'">> ELSE <<>>)
         \o <<". ", "Please run 'sf org login">>
         \o (IF Truthy(targetOrg) THEN <<" --alias ">> \o ToStr(targetOrg) ELSE <<>>)
         \o <<"' to re-authenticate.">>
    ELSE <<"Failed to execute Apex: ">> \o message

ApexSourcePaths == {ProjA, PlainDir, MissingPath}
ApexCodes == {<<>>, <<SP, NL>>, <<"System.debug(1);">>, <<"delete", SP, "[SELECT Id FROM Lead];">>}
ApexTargets == {JUndef, JStr(<<"prod">>)}
ApexConfigFiles == {AbsentFile, FileWith(<<"{", Q, "defaultusername", Q, ":", "127", "}">>)}
\* what the child may deliver: exit kind, stdout, stderr
ApexChildResults ==
    {<<"none", <<"{", Q, "status", Q, ":", "0", ",", Q, "result", Q, ":", "[", "]", "}", NL>>, <<>>>>,
     <<"exit", <<>>, <<"Error: ", "No authenticated org found", NL>>>>,
     <<"exit", <<>>, <<"Error: ", "expired access/refresh token", NL>>>>,
     <<"exit", <<>>, <<"deploy", SP, "failed", NL>>>>}

\* the call ends in the catch block (49-76): cleanup, then the Error thrown
ApexFails(c, started, disk, message, denied) ==
    LET end(cleanup) ==
            /\ apex' = [apex EXCEPT ![c] =
                          [started EXCEPT
                              !.pc = "done",
                              !.unlinks = cleanup.attempts,
                              !.outcome = Rejected("Failed", message),
                              !.threw = TRUE,
                              !.message = ApexError(message, started.targetOrg)]]
            /\ tempFiles' = cleanup.disk
    IN  end(CleanupAfterError(disk, started.tempFilePath, denied))

\* the synchronous section of a call (17-36): up to a throw or to the await on
\* the child that executeSfCommandInProject spawned
ApexCall(c) ==
    /\ apex[c].pc = "idle"
    /\ \E sourcePath \in ApexSourcePaths, code \in ApexCodes, targetOrg \in ApexTargets,
          configFile \in ApexConfigFiles, denied \in BOOLEAN :
          LET now == clock
              path == TempFilePath(sourcePath, now)
              canWrite == IsDirectory(PathResolve(sourcePath))
              started == [ApexIdle EXCEPT
                             !.sourcePath = sourcePath, !.code = code,
                             !.targetOrg = targetOrg, !.now = now,
                             !.tempFilePath = path, !.wrote = canWrite]
              written == IF canWrite THEN WriteFile(tempFiles, path, code) ELSE tempFiles
              sfCommand == BuildSfCommand(ApexBaseCommand(now), targetOrg, JStr(sourcePath),
                                          configFile)
              validation == ValidateProjectPath(sourcePath)
              r == FindSfPath(cachedSfPath, platform, present)
          IN  /\ (sourcePath # ProjA \/ Truthy(targetOrg)) => configFile = AbsentFile
              /\ IF IsBlank(code)
                 THEN /\ ~denied
                      /\ apex' = [apex EXCEPT ![c] =
                                    [ApexIdle EXCEPT
                                        !.pc = "done", !.sourcePath = sourcePath,
                                        !.code = code, !.targetOrg = targetOrg,
                                        !.outcome = Rejected("InvalidInput",
                                                             <<"Code cannot be empty">>),
                                        !.threw = TRUE,
                                        !.message = <<"Code cannot be empty">>]]
                      /\ UNCHANGED <<tempFiles, cachedSfPath>>
                 ELSE IF ~canWrite
                 THEN /\ ApexFails(c, started, written,
                                   <<"ENOENT: no such file or directory, open '">>
                                   \o path \o <<"'">>, denied)
                      /\ UNCHANGED cachedSfPath
                 ELSE IF sfCommand.threw
                 THEN /\ ApexFails(c, started, written,
                                   <<"orgToUse.trim is not a function">>, denied)
                      /\ UNCHANGED cachedSfPath
                 ELSE IF validation.threw
                 THEN /\ ApexFails(c, started, written, validation.message, denied)
                      /\ UNCHANGED cachedSfPath
                 ELSE /\ ~denied
                      /\ apex' = [apex EXCEPT ![c] =
                                    [started EXCEPT
                                        !.pc = "awaiting",
                                        !.command = FullCommand("executeSfCommandInProject",
                                                                sfCommand.command, sourcePath,
                                                                r.path, platform)]]
                      /\ tempFiles' = written
                      /\ cachedSfPath' = r.cache
    /\ UNCHANGED <<calls, running, envVars, cb, fnVars, logout, clock>>

\* the child of a call opens the file its --file argument names
ApexChildReads(c) ==
    /\ apex[c].pc = "awaiting" /\ ~apex[c].childRead.done
    /\ LET here == {f \in tempFiles : f.path = apex[c].tempFilePath}
       IN  apex' = [apex EXCEPT ![c].childRead =
                       IF here = {} THEN [done |-> TRUE, found |-> FALSE, code |-> <<>>]
                       ELSE [done |-> TRUE, found |-> TRUE,
                             code |-> (CHOOSE f \in here : TRUE).code]]
    /\ UNCHANGED <<lifeVars, envVars, cb, fnVars, logout, clock, tempFiles>>

\* the child exits, the callback of executeSfCommandInProject settles the promise
\* and the call goes on behind its await (36-47, or 48-76 on a rejection)
ApexChildExit(c) ==
    /\ apex[c].pc = "awaiting"
    /\ \E result \in ApexChildResults, denied \in BOOLEAN :
          LET succeed(outcome, cleanup) ==
                  /\ apex' = [apex EXCEPT ![c] =
                                [apex[c] EXCEPT
                                    !.pc = "done", !.unlinks = cleanup.attempts,
                                    !.outcome = outcome]]
                  /\ tempFiles' = cleanup.disk
              settle(outcome) ==
                  IF outcome.ok
                  THEN succeed(outcome,
                               CleanupAfterSuccess(tempFiles, apex[c].tempFilePath, denied))
                  ELSE ApexFails(c, apex[c], tempFiles, outcome.message, denied)
          IN  settle(ExecuteSfCommandInProjectCb(
                         apex[c].command,
                         ExecError(result[1], apex[c].command, result[3]),
                         result[2], result[3]))
    /\ UNCHANGED <<lifeVars, envVars, cb, fnVars, logout, clock>>

\* a millisecond passes
ApexTick ==
    /\ clock < MaxClock
    /\ clock' = clock + 1
    /\ UNCHANGED <<lifeVars, envVars, cb, fnVars, logout, apex, tempFiles>>

NextApex ==
    \/ \E c \in ApexCalls : ApexCall(c)
    \/ \E c \in ApexCalls : ApexChildReads(c)
    \/ \E c \in ApexCalls : ApexChildExit(c)
    \/ ApexTick

\* no candidate executable is installed: the calls run the bare name "sf"
InitApex == Init /\ present = {}

SpecApex == InitApex /\ [][NextApex]_vars

-----------------------------------------------------------------------------
(* Properties                                                              *)

CbRan == cb.variant # "none"
\* outcomes compared field by field: a raw and a parsed value are of different shapes
SucceedsWith(outcome, kind, value) ==
    outcome.ok /\ outcome.kind = kind /\ outcome.value = value
FailsWith(outcome, kind, message) ==
    ~outcome.ok /\ outcome.kind = kind /\ outcome.message = message
SameOutcome(a, b) ==
    a.ok = b.ok /\ a.kind = b.kind /\ a.message = b.message /\ a.value = b.value
StdoutParses == cb.stdout # <<>> /\ JSONParse(cb.stdout).ok
StatusOneDocument ==
    <<"{", Q, "status", Q, ":", "1", ",", Q, "message", Q, ":", Q, "boom", Q, ",",
      Q, "actions", Q, ":", "[", Q, "retry", Q, "]", "}">>

\* C1: in executeSfCommand and executeSfCommandInProject, a non-empty stdout that
\* parses as JSON settles the promise as a success carrying exactly the parsed
\* value, whatever the execution failure and whatever stderr holds.
C1_ParsedStdoutWins ==
    (cb.variant \in Structured /\ StdoutParses)
        => SucceedsWith(cb.outcome, "Structured", JSONParse(cb.stdout).val)

\* C1 witness: a "not found" failure with stderr content and a JSON stdout, resolved
\* with the document stdout held
C1_Witness ==
    /\ cb.variant \in Structured
    /\ cb.exitKind = "exit" /\ IsNotFound(cb.error) /\ cb.stderr # <<>>
    /\ cb.stdout = StatusOneDocument
    /\ SucceedsWith(cb.outcome, "Structured",
          JObj((<<"status">> :> JNum("1")) @@ (<<"message">> :> JStr(<<"boom">>))
               @@ (<<"actions">> :> JArr(<<JStr(<<"retry">>)>>))))

\* C2 (as claimed): the promise is rejected with "No output received from command"
\* only when stdout is empty, stderr is empty and there is no execution failure.
C2_NoOutputOnlyWhenSilent ==
    cb.outcome.kind = "NoOutput"
        => (cb.stdout = <<>> /\ cb.stderr = <<>> /\ ~cb.error.raised)

\* C3 (as claimed): in both parsing invokers, an empty stdout, a non-zero exit that is
\* not a "not found" failure and a stderr that parses as JSON give a CommandFailed
\* whose message holds the document's message, its joined actions and its stack,
\* each when present.
C3_StderrJsonDetails ==
    LET doc == JSONParse(cb.stderr).val
        has(key) == doc.t = "obj" /\ key \in DOMAIN doc.v
    IN  (/\ cb.variant \in Structured
         /\ cb.stdout = <<>>
         /\ cb.exitKind = "exit" /\ ~IsNotFound(cb.error)
         /\ JSONParse(cb.stderr).ok)
        => /\ cb.outcome.kind = "CommandFailed"
           /\ has(<<"message">>)
                => Includes(cb.outcome.message, ToStr(doc.v[<<"message">>]))
           /\ (has(<<"actions">>) /\ Get(doc, <<"actions">>).t = "arr")
                => Includes(cb.outcome.message, ArrayJoin(Get(doc, <<"actions">>), <<NL>>))
           /\ has(<<"stack">>)
                => Includes(cb.outcome.message, ToStr(doc.v[<<"stack">>]))

\* C4 (as claimed): in every invoker, a command whose text holds "scanner" or
\* "code-analyzer", a non-zero exit and a non-empty stdout give a success carrying
\* stdout unchanged, before any error classification.
C4_AnalysisOutputIsSuccess ==
    (CbRan /\ IsAnalysis(cb.command) /\ cb.exitKind = "exit" /\ cb.stdout # <<>>)
        => SucceedsWith(cb.outcome, "Raw", cb.stdout)

\* the invoker that differs from this one only in parsing stdout
ParsingTwin(variant) ==
    IF variant = "executeSfCommandRaw" THEN "executeSfCommand" ELSE "executeSfCommandInProject"
\* the invoker that differs from this one only in project scoping
ScopingTwin(variant) ==
    CASE variant = "executeSfCommand" -> "executeSfCommandInProject"
      [] variant = "executeSfCommandInProject" -> "executeSfCommand"
      [] variant = "executeSfCommandRaw" -> "executeSfCommandInProjectRaw"
      [] variant = "executeSfCommandInProjectRaw" -> "executeSfCommandRaw"
\* what the twin's callback makes of the child result cb holds
TwinOutcome(twin) == Callback(twin, cb.command, cb.error, cb.stdout, cb.stderr)

\* the child results C5 is about: a raw invoker, stdout that is no JSON, no analysis command
C5_Case == cb.variant \in RawVariants /\ ~StdoutParses /\ ~IsAnalysis(cb.command)

C6_ScopingKeepsClassification ==
    CbRan => SameOutcome(cb.outcome, TwinOutcome(ScopingTwin(cb.variant)))

\* C7: in all four invokers, when stdout holds no parseable JSON and the message of
\* the execution failure contains "command not found" or "is not recognized", the
\* promise is rejected with the installation guidance, whether or not stderr parses
\* as JSON.
C7_NotFoundWins ==
    (CbRan /\ ~StdoutParses /\ cb.error.raised /\ IsNotFound(cb.error))
        => FailsWith(cb.outcome, "ExecutableNotFound", NotFoundMessage)

\* C7 witness: a parsing invoker, a "command not found" failure and a stderr that is
\* a JSON document
C7_Witness ==
    /\ cb.variant = "executeSfCommand"
    /\ ~StdoutParses
    /\ cb.error.raised /\ IsNotFound(cb.error)
    /\ ~StderrDetails(cb.stderr).threw
    /\ cb.outcome.kind = "ExecutableNotFound"

\* stderr that is merely advisory: each of its lines opens with "Warning"
MerelyAdvisory(stderr) ==
    \A i \in 1..Len(stderr) : (i = 1 \/ stderr[i - 1] = NL) => stderr[i] = "Warning"

\* C8 (as claimed): in both parsing invokers, with no execution failure, no parseable
\* stdout and a stderr that holds more than advisory warnings, the promise is
\* rejected as CommandFailed, with the synthesized message when stderr parses as
\* JSON and with the raw stderr text otherwise.
C8_StderrContentIsCommandFailed ==
    (/\ cb.variant \in Structured
     /\ ~cb.error.raised /\ ~StdoutParses
     /\ cb.stderr # <<>> /\ ~MerelyAdvisory(cb.stderr))
        => IF JSONParse(cb.stderr).ok /\ ~StderrDetails(cb.stderr).threw
           THEN FailsWith(cb.outcome, "CommandFailed", StderrDetails(cb.stderr).text)
           ELSE FailsWith(cb.outcome, "CommandFailed", cb.stderr)

\* C9: in executeSfCommandInProject and executeSfCommandInProjectRaw a child is
\* spawned only after validateProjectPath has passed for that call's project path;
\* a call whose validation threw has spawned nothing and left cachedSfPath as it was.
C9_ValidationBeforeSpawn ==
    \A c \in Calls :
        /\ (/\ calls[c].variant \in ProjectScoped
            /\ calls[c].spawned > 0 \/ calls[c].pc \in {"resolve", "spawn", "waiting", "settled"})
              => /\ calls[c].validated
                 /\ ~ValidateProjectPath(calls[c].projectPath).threw
        /\ calls[c].pc = "thrown"
              => /\ ValidateProjectPath(calls[c].projectPath).threw
                 /\ calls[c].spawned = 0 /\ calls[c].child = <<>>
                 /\ cachedSfPath = calls[c].cacheBefore
        /\ calls[c].spawned <= 1

\* C9 witness: one project-scoped call waits for its child, spawned after its
\* validation passed, while another has just been thrown out by its validation
C9_Witness ==
    \E c, d \in Calls :
        /\ calls[c].pc = "waiting" /\ calls[c].variant \in ProjectScoped
        /\ calls[c].validated /\ calls[c].spawned = 1 /\ calls[c].child # <<>>
        /\ calls[d].pc = "thrown" /\ calls[d].spawned = 0
        /\ cachedSfPath # <<>>

\* the kind the four checks of validateProjectPath give when taken in order
FirstFailingCheck(projectPath) ==
    IF IsBlank(projectPath) THEN "InvalidInput"
    ELSE IF ~ExistsSync(PathResolve(projectPath)) THEN "PathNotFound"
    ELSE IF ~IsDirectory(PathResolve(projectPath)) THEN "NotADirectory"
    ELSE IF ~ExistsSync(PathJoin(PathResolve(projectPath), ".sf")) THEN "NotAProject"
    ELSE "none"

\* C10 (as claimed): validateProjectPath fails with the kind of the first check that
\* fails, in the order empty path, existence, directory, marker (an existing file is
\* reported as NotADirectory), and returns normally only when all four pass.
C10_FirstFailingCheckDecides ==
    \A c \in Calls :
        /\ calls[c].pc = "thrown"
              => calls[c].outcome.kind = FirstFailingCheck(calls[c].projectPath)
        /\ calls[c].validated => FirstFailingCheck(calls[c].projectPath) = "none"

\* C11: for an empty or whitespace-only project path validateProjectPath throws
\* InvalidInput and has made no filesystem probe (no existsSync, no statSync).
C11_BlankPathFailsUnprobed ==
    \A c \in Calls :
        (calls[c].pc = "thrown" /\ IsBlank(calls[c].projectPath))
            => /\ calls[c].outcome.kind = "InvalidInput"
               /\ calls[c].probes = <<>>

\* C11 witness: a whitespace-only project path has been thrown out as InvalidInput
C11_Witness ==
    \E c \in Calls :
        /\ calls[c].pc = "thrown" /\ calls[c].projectPath = <<SP>>
        /\ calls[c].outcome.kind = "InvalidInput" /\ calls[c].probes = <<>>

\* a path that exists and is a directory, with no ".sf" entry directly beneath it
BareDirectory(projectPath) ==
    /\ ~IsBlank(projectPath)
    /\ IsDirectory(PathResolve(projectPath))
    /\ ~ExistsSync(PathJoin(PathResolve(projectPath), ".sf"))

\* C12: for an existing directory with no ".sf" entry validateProjectPath throws
\* NotAProject; and a run of validateProjectPath only probes (existsSync,
\* statSync): it leaves the executable-path cache, the platform, the files on disk
\* and every other invocation as they were.
C12_NotAProjectAndReadOnly ==
    /\ [](\A c \in Calls :
            /\ (/\ calls[c].variant \in ProjectScoped
                /\ calls[c].pc \notin {"idle", "validate"}
                /\ BareDirectory(calls[c].projectPath))
                  => calls[c].pc = "thrown" /\ calls[c].outcome.kind = "NotAProject"
            /\ \A i \in 1..Len(calls[c].probes) :
                  calls[c].probes[i].call \in {"existsSync", "statSync"})
    /\ [][\A c \in Calls :
            (calls[c].pc = "validate" /\ calls'[c].pc # "validate")
                => /\ UNCHANGED <<cachedSfPath, platform, present>>
                   /\ \A d \in Calls \ {c} : calls'[d] = calls[d]]_vars

\* C12 witness: a directory without the marker has been thrown out as NotAProject,
\* after the three probes, with the cache still unset
C12_Witness ==
    \E c \in Calls :
        /\ calls[c].pc = "thrown" /\ calls[c].projectPath = PlainDir
        /\ calls[c].outcome.kind = "NotAProject"
        /\ Len(calls[c].probes) = 3

\* C13: the first call of findSfPath returns the first path, in list order, of
\* the platform's candidate list that exists on disk, and returns "sf" exactly
\* when no path of that list exists.
C13_FirstExistingCandidate ==
    LET paths == PathsToCheck(platform)
        first == sfPaths[1]
    IN  Len(sfPaths) >= 1 =>
          /\ (first.returned = "sf") <=> (\A i \in 1..Len(paths) : paths[i] \notin first.onDisk)
          /\ first.returned # "sf" =>
                \E i \in 1..Len(paths) :
                    /\ paths[i] = first.returned
                    /\ paths[i] \in first.onDisk
                    /\ \A j \in 1..(i - 1) : paths[j] \notin first.onDisk

\* C13 witness: two candidates of the platform exist and the first call returned
\* the one that comes earlier in the list
C13_Witness ==
    /\ Len(sfPaths) >= 1
    /\ platform = "linux"
    /\ {"/usr/bin/sf", "/opt/salesforce/cli/bin/sf"} \subseteq sfPaths[1].onDisk
    /\ sfPaths[1].returned = "/usr/bin/sf"

\* C14: cachedSfPath is unset until findSfPath is first called, holds the value
\* of that first call from then on, and every later call returns that value
\* whatever exists on disk by then; once set the cache never changes.
C14_CacheSingleAssignment ==
    /\ [](/\ (cachedSfPath = <<>>) <=> (sfPaths = <<>>)
          /\ \A i \in 1..Len(sfPaths) :
                /\ sfPaths[i].returned = sfPaths[1].returned
                /\ cachedSfPath = <<sfPaths[1].returned>>)
    /\ [][cachedSfPath # <<>> => cachedSfPath' = cachedSfPath]_vars

\* C14 witness: a later call returned the cached value although the disk had
\* changed so that a fresh resolution would have returned another path
C14_Witness ==
    /\ Len(sfPaths) >= 2
    /\ sfPaths[2].onDisk # sfPaths[1].onDisk
    /\ sfPaths[2].returned = sfPaths[1].returned
    /\ FindSfPath(<<>>, platform, sfPaths[2].onDisk).path # sfPaths[2].returned

\* a caller supplied this argument: a string with something in it
Supplied(arg) == Truthy(arg) /\ ~IsBlank(arg.v)
\* the target flag as buildSfCommand writes it
TargetFlag(name) == <<SP, "--target-org", SP>> \o name
\* the number of "--json" in a text
JsonCount(text) == Cardinality({i \in 1..Len(text) : text[i] = "--json"})
\* text ends with suffix
EndsWith(text, suffix) ==
    /\ Len(text) >= Len(suffix)
    /\ SubSeq(text, Len(text) - Len(suffix) + 1, Len(text)) = suffix

\* C15 (as claimed): buildSfCommand never raises, whatever the config file holds,
\* and it targets the explicit targetOrg if one is supplied, else the default
\* username of the project's config file if a project path is supplied, else
\* nothing.
C15_NeverRaisesAndSelectsInOrder ==
    LET default == GetDefaultUsername(built.sourcePath.v, built.configFile)
        command == built.result.command
    IN  built.done =>
          /\ ~built.result.threw
          /\ Supplied(built.targetOrg)
                => Includes(command, TargetFlag(built.targetOrg.v))
          /\ (~Supplied(built.targetOrg) /\ Supplied(built.sourcePath) /\ Truthy(default))
                => Includes(command, TargetFlag(ToStr(default)))
          /\ (~Supplied(built.targetOrg) /\ ~Supplied(built.sourcePath))
                => ~Includes(command, <<"--target-org">>)

\* C16: with no explicit target and a project path whose config file is missing,
\* buildSfCommand returns the base command with no target flag added, followed
\* by " --json" when the base command held no "--json", and by nothing otherwise.
C16_MissingConfigAddsNoTarget ==
    (/\ built.done
     /\ ~Supplied(built.targetOrg)
     /\ Truthy(built.sourcePath)
     /\ ~built.configFile.exists)
        => /\ ~built.result.threw
           /\ built.result.command =
                 IF Includes(built.baseCommand, <<"--json">>) THEN built.baseCommand
                 ELSE built.baseCommand \o <<SP, "--json">>

\* C16 witness: a base command without "--json", built for a project whose config
\* file is missing, came back with only " --json" added
C16_Witness ==
    /\ built.done
    /\ built.targetOrg = JUndef
    /\ built.sourcePath = JStr(MissingPath)
    /\ built.configFile = AbsentFile
    /\ ~Includes(built.baseCommand, <<"--json">>)
    /\ built.result.command = built.baseCommand \o <<SP, "--json">>

\* C17 (as claimed): when the base command holds no "--json" the builder appends
\* " --json"; when it holds some the builder adds none; so the result holds
\* max(1, n) of them, n being the number in the base command.
C17_JsonFlagExactlyOnce ==
    LET command == built.result.command
        n == JsonCount(built.baseCommand)
    IN  (built.done /\ ~built.result.threw) =>
          /\ n = 0 => EndsWith(command, <<SP, "--json">>)
          /\ JsonCount(command) = IF n > 1 THEN n ELSE 1

\* C18: a command built by buildSfCommand, run by a parsing invoker against a
\* child that exits with code 0, prints the serialization of a payload on stdout
\* and nothing on stderr, resolves with that payload.
C18_BuiltCommandRoundTrip ==
    (built.done /\ built.ran) => SucceedsWith(built.outcome, "Structured", built.payload)

\* C18 witness: executeSfCommandInProject resolved with the object the child
\* printed for a command that carries a target flag
C18_Witness ==
    /\ built.done /\ built.ran
    /\ built.variant = "executeSfCommandInProject"
    /\ Includes(built.result.command, <<"--target-org">>)
    /\ built.payload.t = "obj"
    /\ built.outcome.ok /\ built.outcome.value = built.payload

\* the directory the shell of a child is in when it comes to run sf: the one its
\* command changes to, or the one it inherits from the server process
ChildDir(child) ==
    LET closes == {j \in 3..Len(child) : child[j] = Q}
    IN  IF Len(child) >= 3 /\ child[1] \in {"cd ", "cd /d "} /\ child[2] = Q /\ closes # {}
        THEN SubSeq(child, 3, (CHOOSE j \in closes : \A k \in closes : j <= k) - 1)
        ELSE ProcessCwd

\* C19: the command of every project-scoped child opens with the "cd" of the
\* platform to the resolved project path of its own invocation, so each child in
\* flight runs in the project directory of its own call, whatever other calls
\* were started or completed in between; the other children inherit the working
\* directory of the server process, which no invocation changes.
C19_ChildRunsInOwnProject ==
    \A c \in Calls :
        calls[c].pc = "waiting" =>
            IF calls[c].variant \in ProjectScoped
            THEN /\ calls[c].child[1] = (IF platform = "win32" THEN "cd /d " ELSE "cd ")
                 /\ ChildDir(calls[c].child) = PathResolve(calls[c].projectPath)
            ELSE ChildDir(calls[c].child) = ProcessCwd

\* C19 witness: two project-scoped calls with different project paths are in
\* flight together, each child in its own directory
C19_Witness ==
    \E c, d \in Calls :
        /\ calls[c].pc = "waiting" /\ calls[d].pc = "waiting"
        /\ calls[c].variant \in ProjectScoped /\ calls[d].variant \in ProjectScoped
        /\ calls[c].projectPath = ProjA /\ calls[d].projectPath = ProjRel
        /\ ChildDir(calls[c].child) = ProjA
        /\ ChildDir(calls[d].child) = PathResolve(ProjRel)

\* C20: an invocation has spawned exactly one child once it reaches execution and
\* none before; after its promise has settled, with a success or with a failure
\* of any kind, the only thing that happens to it is the return to its caller: no
\* second child is spawned.
C20_OneChildNoRetry ==
    /\ [](\A c \in Calls :
            calls[c].spawned = IF calls[c].pc \in {"waiting", "settled"} THEN 1 ELSE 0)
    /\ [][\A c \in Calls :
            calls[c].pc = "settled" => calls'[c] = calls[c] \/ calls'[c] = Idle]_vars

\* C20 witness: a call whose single child failed sits rejected, about to return
C20_Witness ==
    \E c \in Calls :
        /\ calls[c].pc = "settled" /\ ~calls[c].outcome.ok
        /\ calls[c].outcome.kind = "CommandFailed"
        /\ calls[c].spawned = 1

\* C21 (as claimed): in all four invokers and for every command, a child result
\* whose execution failure is "maxBuffer length exceeded" settles the promise as
\* a failure, also when part of stdout was captured.
C21_BufferExceededIsFailure ==
    (CbRan /\ cb.exitKind = "maxbuffer") => ~cb.outcome.ok

\* the command opens with the bare name "sf" and whitespace after it
StartsWithSf(command) == Len(command) >= 2 /\ command[1] = "sf" /\ IsWs(command[2])
\* what a project-scoped invoker writes in front of the command, nothing in the others
CdPrefix ==
    IF cb.variant \in ProjectScoped
    THEN (IF platform = "win32" THEN <<"cd /d ", Q>> ELSE <<"cd ", Q>>)
         \o PathResolve(cb.projectPath) \o <<Q, " && ">>
    ELSE <<>>
\* the first position after the leading "sf" that holds no whitespace
AfterSfAndSpace(command) ==
    LET later == {k \in 2..Len(command) : ~IsWs(command[k])}
    IN  IF later = {} THEN Len(command) + 1 ELSE CHOOSE k \in later : \A j \in later : k <= j

\* C22 (as claimed): for a command that opens with "sf" and whitespace, the command
\* executed is the directory prefix (project-scoped invokers only), the quoted
\* resolved executable path in place of the leading "sf", and the rest of the
\* command text unchanged.
C22_OnlyLeadingSfReplaced ==
    (CbRan /\ StartsWithSf(cb.command))
        => cb.fullCommand = CdPrefix \o <<Q, cb.sfPath, Q>> \o Tail(cb.command)

\* C22 (amended): for a command that opens with "sf" and whitespace, the command
\* executed is the directory prefix (project-scoped invokers only), then the quoted
\* resolved executable path and one space in place of the leading "sf" together
\* with all the whitespace that follows it, then the remaining text unchanged; a
\* later "sf" is left alone.
C22_LeadingSfAndSpaceReplaced ==
    (CbRan /\ StartsWithSf(cb.command))
        => cb.fullCommand =
              CdPrefix \o <<Q, cb.sfPath, Q, SP>>
              \o SubSeq(cb.command, AfterSfAndSpace(cb.command), Len(cb.command))

\* C22 witness: a project-scoped invoker ran a command with two spaces after the
\* leading "sf" and another "sf" further on, which is still there
C22_Witness ==
    /\ CbRan /\ cb.variant = "executeSfCommandInProjectRaw"
    /\ StartsWithSf(cb.command) /\ cb.command[3] = SP
    /\ cb.sfPath = "/usr/bin/sf"
    /\ Cardinality({i \in 1..Len(cb.fullCommand) : cb.fullCommand[i] = "sf"}) = 1
    /\ Cardinality({i \in 1..Len(cb.fullCommand) : cb.fullCommand[i] = "/usr/bin/sf"}) = 1

\* C25: the command a project-scoped invoker executes is 'cd /d "<resolved path>"
\* && <command>' on win32 and 'cd "<resolved path>" && <command>' on any other
\* platform, <resolved path> being the absolute form of the validated project path.
C25_PlatformCdOperator ==
    (CbRan /\ cb.variant \in ProjectScoped)
        => /\ ~ValidateProjectPath(cb.projectPath).threw
           /\ PathResolve(cb.projectPath)[1] = "/"
           /\ cb.fullCommand =
                 <<IF platform = "win32" THEN "cd /d " ELSE "cd ", Q>>
                 \o PathResolve(cb.projectPath)
                 \o <<Q, " && ">> \o SfReplace(cb.command, cb.sfPath)

\* C25 witness: on win32 a relative project path went into the command in its
\* absolute form behind "cd /d"
C25_Witness ==
    /\ CbRan /\ cb.variant = "executeSfCommandInProject"
    /\ platform = "win32" /\ cb.projectPath = ProjRel
    /\ SubSeq(cb.fullCommand, 1, 5) = <<"cd /d ", Q, "/", "srv", "/">>

\* C23 (as claimed): a raw-output invoker never inspects stdout as structured data:
\* for every command and child result, replacing stdout by any other non-empty
\* text (JSON or not) leaves success or failure and the failure message as they
\* are, and a success returns stdout unchanged.
C23_RawIgnoresStdoutContent ==
    (CbRan /\ cb.variant \in RawVariants /\ cb.stdout # <<>>)
        => /\ cb.outcome.ok => cb.outcome.value = cb.stdout
           /\ \A other \in Stdouts \ {<<>>} :
                LET same(a, b) == a.ok = b.ok /\ a.message = b.message
                IN  same(cb.outcome,
                         Callback(cb.variant, cb.command, cb.error, other, cb.stderr))

\* C24: existence checks on candidate paths happen only during the first call of
\* findSfPath: that call checks the platform's candidates in list order up to the
\* first one that exists, every later call checks nothing, also when the first
\* resolution ended in the fallback "sf".
C24_ProbesOnlyOnFirstCall ==
    /\ Len(sfPaths) >= 1 =>
          LET paths == PathsToCheck(platform)
              n == Len(sfPaths[1].probes)
          IN  /\ n >= 1
              /\ sfPaths[1].probes = SubSeq(paths, 1, n)
              /\ \A i \in 1..(n - 1) : paths[i] \notin sfPaths[1].onDisk
              /\ n < Len(paths) => paths[n] \in sfPaths[1].onDisk
    /\ \A i \in 2..Len(sfPaths) : sfPaths[i].probes = <<>>

\* C24 witness: the first resolution fell back to "sf" after checking every
\* candidate; by the second call a candidate of the platform exists, and that call
\* checked nothing
C24_Witness ==
    /\ Len(sfPaths) >= 2
    /\ sfPaths[1].returned = "sf"
    /\ sfPaths[1].probes = PathsToCheck(platform)
    /\ \E i \in 1..Len(PathsToCheck(platform)) : PathsToCheck(platform)[i] \in sfPaths[2].onDisk
    /\ sfPaths[2].probes = <<>>

\* C26: in all four invokers, on every child result, the callback settles the
\* promise exactly once: it makes one call of resolve or reject, the promise is
\* fulfilled if that call is a resolve and rejected if it is a reject, no result
\* leaves it pending, and an execution failure that came with no output at all is
\* always delivered as a failure.
C26_SettledExactlyOnce ==
    CbRan =>
        /\ Len(cb.settled) = 1
        /\ cb.settled[1] \in ResolveSites \cup RejectSites
        /\ cb.outcome.kind # "pending"
        /\ cb.outcome.ok <=> cb.settled[1] \in ResolveSites
        /\ ~cb.outcome.ok <=> cb.settled[1] \in RejectSites
        /\ (cb.settled[1] \in {80, 144, 282, 339}) <=> (cb.outcome.kind = "ExecutableNotFound")
        /\ (cb.settled[1] \in {124, 298}) <=> (cb.outcome.kind = "NoOutput")
        /\ (cb.error.raised /\ cb.stdout = <<>>) => ~cb.outcome.ok

\* C26 witness: a parsing invoker got a child result with an execution failure,
\* parseable stdout and an error text on stderr, and settled once, by the resolve
\* on line 68
C26_Witness ==
    /\ CbRan /\ cb.variant = "executeSfCommand"
    /\ cb.error.raised /\ StdoutParses /\ StderrIsError(cb.stderr)
    /\ cb.settled = <<68>>
    /\ cb.outcome.ok

\* the project default buildSfCommand would find for this build
ProjectDefault == GetDefaultUsername(built.sourcePath.v, built.configFile)
\* targetOrg is a string of nothing but whitespace, or the empty string
BlankTarget == built.targetOrg.t = "str" /\ IsBlank(built.targetOrg.v)

\* C29: in buildSfCommand a non-blank targetOrg overrides the project default: the
\* config file is neither tested for nor read and the command gets the flag with
\* exactly the value supplied; an empty or whitespace-only targetOrg gives what an
\* absent one gives, so the project's config file is consulted when a project path
\* is given and its non-blank default goes into the flag; and no command returned
\* holds a "--target-org" whose value is blank.
C29_ExplicitTargetOverridesDefault ==
    built.done =>
        /\ Supplied(built.targetOrg)
              => /\ built.configOps = <<>>
                 /\ ~built.result.threw
                 /\ built.result.command =
                       WithJsonFlag(built.baseCommand \o TargetFlag(built.targetOrg.v))
        /\ BlankTarget
              => /\ built.configOps # <<>> <=> Truthy(built.sourcePath)
                 /\ built.result.threw =
                       BuildSfCommand(built.baseCommand, JUndef, built.sourcePath,
                                      built.configFile).threw
                 /\ built.result.command =
                       BuildSfCommand(built.baseCommand, JUndef, built.sourcePath,
                                      built.configFile).command
                 /\ ~Truthy(built.sourcePath)
                       => built.result.command = WithJsonFlag(built.baseCommand)
                 /\ (Truthy(built.sourcePath) /\ ProjectDefault.t = "str"
                     /\ ~IsBlank(ProjectDefault.v))
                       => built.result.command =
                             WithJsonFlag(built.baseCommand \o TargetFlag(ProjectDefault.v))
        /\ \A i \in 1..Len(built.result.command) :
              built.result.command[i] = "--target-org"
                 => /\ i + 2 <= Len(built.result.command)
                    /\ built.result.command[i + 1] = SP
                    /\ ~IsWs(built.result.command[i + 2])

\* C29 witness: a named org was supplied for a project whose config file names
\* another default; the file was left alone and the flag carries the name supplied
C29_Witness ==
    /\ built.done
    /\ built.targetOrg = JStr(<<"prod">>)
    /\ built.sourcePath = JStr(ProjA)
    /\ built.configFile =
          FileWith(<<"{", Q, "defaultusername", Q, ":", Q, "dev@example.com", Q, "}", NL>>)
    /\ built.configOps = <<>>
    /\ Includes(built.result.command, <<"--target-org", SP, "prod">>)
    /\ ~Includes(built.result.command, <<"dev@example.com">>)

\* exactly one of the two arguments of the logout tool was given
ExactlyOneGiven == Truthy(logout.targetOrg) # Truthy(logout.all)

\* C30 (as claimed): the logout tool spawns a child only when exactly one of
\* targetOrg and all is given; with neither or both it answers with a failure
\* envelope and spawns nothing; the command it runs holds "--all" or
\* "--target-org <org>" but never both, and always ends with "--no-prompt --json".
C30_LogoutExactlyOneSelector ==
    logout.called =>
        /\ logout.spawned > 0 <=> ExactlyOneGiven
        /\ ~ExactlyOneGiven
              => /\ logout.spawned = 0 /\ logout.command = <<>>
                 /\ Includes(logout.text, <<Q, "success", Q, ":", "false">>)
        /\ logout.spawned > 0
              => /\ Includes(logout.command, <<"--all">>)
                       # Includes(logout.command, <<"--target-org">>)
                 /\ Truthy(logout.targetOrg) /\ ~Truthy(logout.all)
                       => Includes(logout.command,
                                   <<"--target-org", SP>> \o logout.targetOrg.v)
                 /\ EndsWith(logout.command, <<SP, "--no-prompt", SP, "--json">>)

\* C27 (as claimed): two executeAnonymousApex calls in flight at the same time on
\* the same project directory have different temporary file paths, and the child
\* of every call finds, under its call's path, the code of its own call.
C27_TempFilePerCall ==
    /\ \A c1, c2 \in ApexCalls :
          (/\ c1 # c2
           /\ apex[c1].pc = "awaiting" /\ apex[c2].pc = "awaiting"
           /\ PathResolve(apex[c1].sourcePath) = PathResolve(apex[c2].sourcePath))
              => apex[c1].tempFilePath # apex[c2].tempFilePath
    /\ \A c \in ApexCalls :
          apex[c].childRead.done
              => apex[c].childRead.found /\ apex[c].childRead.code = apex[c].code

\* what C28 says of one call, in every state
CleansUp(a) ==
    /\ a.pc = "awaiting" => (a.wrote /\ a.unlinks = <<>>)
    /\ a.pc = "done" =>
          /\ IsBlank(a.code)
                => /\ ~a.wrote /\ a.unlinks = <<>>
                   /\ a.threw /\ a.message = <<"Code cannot be empty">>
          /\ a.wrote => (Len(a.unlinks) = 1 /\ a.unlinks[1].path = a.tempFilePath)
          /\ a.threw = ~a.outcome.ok
          /\ (a.threw /\ ~IsBlank(a.code))
                => a.message = ApexError(a.outcome.message, a.targetOrg)

\* C28: on every path on which executeAnonymousApex wrote its temporary file
\* (building the command throws, project validation fails, the command fails,
\* the command succeeds) it attempts one delete of that file before it returns or
\* throws, and not before the child has exited; with empty or blank code it throws
\* "Code cannot be empty" and leaves the disk as it was; whether it returns or
\* throws, and what it throws, is decided by the outcome of the command, never
\* by the delete failing.
C28_TempFileCleanedUp ==
    /\ [](\A c \in ApexCalls : CleansUp(apex[c]))
    /\ [][\A c \in ApexCalls :
             (apex[c].pc = "idle" /\ apex'[c].pc = "done" /\ IsBlank(apex'[c].code))
                => tempFiles' = tempFiles]_vars

\* C28 witness: a call wrote its file into a directory that is no project, the
\* validation failed, the delete was attempted and failed, the file is still
\* there, and the call threw the validation failure
C28_Witness ==
    \E c \in ApexCalls :
        /\ apex[c].pc = "done" /\ apex[c].sourcePath = PlainDir /\ apex[c].wrote
        /\ apex[c].unlinks = <<[path |-> apex[c].tempFilePath, ok |-> FALSE]>>
        /\ \E f \in tempFiles : f.path = apex[c].tempFilePath
        /\ apex[c].threw
        /\ apex[c].message[1] = "Failed to execute Apex: "
        /\ Includes(apex[c].message, <<"Project path does not contain .sf directory. ">>)

=============================================================================
